---- MODULE Spec2Model ----
(***************************************************************************)
(* A model of snipe's editor core (snipe/editor.py): the gap buffer, its   *)
(* marks, the undo journal, and the Editor commands built on them.         *)
(*                                                                         *)
(* Text is a sequence of one-character strings.  Python's array slices are *)
(* modelled with their clamping rules (Slice, SliceAssign), because the    *)
(* code relies on them when gapend runs past the end of the array.         *)
(***************************************************************************)
EXTENDS Integers, Sequences, FiniteSets, TLC

\* ------------------------------------------------------------------ bounds
MaxLen == 3        \* longest text explored (Spec)
MaxCap == 4        \* largest array length explored (Spec)
MaxLenU == 2       \* longest text explored (SpecUndo)
MaxCapU == 3       \* largest array length explored (SpecUndo)
MaxUndo == 3       \* longest undo journal explored (SpecUndo)
MaxChunk == 2      \* chunk sizes 1..MaxChunk are explored
NMarks == 1        \* live marks of the buffer-level specification
MaxDel == 2        \* largest delete count passed to replace
MaxOver == 3       \* how far gapend is followed past the end of the array (Spec)
MaxOverU == 2      \* the same (SpecUndo)

VARIABLES
    buf,        \* GapBuffer.buf: the array of character slots
    gapstart,   \* GapBuffer.gapstart
    gapend,     \* GapBuffer.gapend
    chunksize,  \* GapBuffer.chunksize
    marks,      \* GapBuffer.marks: live GapMark id -> GapMark.pos
    undolog,    \* UndoableGapBuffer.undolog: <<where, length, string>> entries
    ed,         \* the Editor session (cursor, the_mark, last_command, ...)
    killring,   \* Context.killring
    peer,       \* a second session opened on the same Buffer
    registry,   \* Buffer.registry: name -> Buffer
    buffers,    \* the Buffers created so far, in the order of their creation
    cache,      \* Buffer.cache['extract_current_line']: point -> (start, line)
    gen,        \* the generator object made by a call of Viewer.view
    conn,       \* the run of Rooster.newmessages and its websocket
    hist        \* the last operation: its arguments, result and the state before it

vars == <<buf, gapstart, gapend, chunksize, marks, undolog, ed, killring, peer,
          registry, buffers, cache, gen, conn, hist>>

\* what the specifications of one session on one Buffer leave alone
others == <<peer, registry, buffers, cache, gen, conn>>

\* ------------------------------------------------------------ Python helpers
Min(a, b) == IF a < b THEN a ELSE b
Max(a, b) == IF a > b THEN a ELSE b

None == <<>>
Some(x) == <<x>>
IsNone(o) == o = <<>>
Val(o) == o[1]

\* In(x): names a value that is used several times, so that it is written
\* and evaluated once
Let(x, In(_)) == In(x)

\* slice.indices(): a negative index counts from the end, all are clamped
ClampIdx(i, n) == IF i < 0 THEN Max(n + i, 0) ELSE Min(i, n)

\* s[i:j]
Slice(s, i, j) ==
    LET a == ClampIdx(i, Len(s))
        b == ClampIdx(j, Len(s))
    IN  IF b <= a THEN <<>> ELSE SubSeq(s, a + 1, b)

\* s[i:j] = xs  (the array is resized when the lengths differ)
SliceAssign(s, i, j, xs) ==
    LET a == ClampIdx(i, Len(s))
        b0 == ClampIdx(j, Len(s))
        b == IF b0 < a THEN a ELSE b0
    IN  SubSeq(s, 1, a) \o xs \o SubSeq(s, b + 1, Len(s))

\* array.array('u', u' ' * size)
_array(n) == [i \in 1..n |-> " "]

\* ---------------------------------------------------------------- GapBuffer
\* A buffer value g is a record [buf, gapstart, gapend, chunksize, marks, undolog].

gaplength(g) == g.gapend - g.gapstart

size(g) == Len(g.buf) - gaplength(g)

text(g) == Slice(g.buf, 0, g.gapstart) \o Slice(g.buf, g.gapend, Len(g.buf))

\* pointtopos with the boundary test point < gapstart
pointtopos_lt(g, point) ==
    IF point < 0 THEN 0
    ELSE IF point < g.gapstart THEN point
    ELSE IF point < Len(g.buf) - (g.gapend - g.gapstart)
         THEN point + (g.gapend - g.gapstart)
    ELSE Len(g.buf)

pointtopos(g, point) ==
    IF point < 0 THEN 0
    ELSE IF point <= g.gapstart THEN point
    ELSE IF point < size(g) THEN point + gaplength(g)
    ELSE Len(g.buf)

postopoint(g, pos) ==
    IF pos < g.gapstart THEN pos
    ELSE IF pos <= g.gapend THEN g.gapstart
    ELSE pos - gaplength(g)

textrange(g, beg0, end0) ==
    LET beg == pointtopos(g, beg0)
        end == pointtopos(g, end0)
        l1 == IF beg <= g.gapstart
              THEN Slice(g.buf, beg, Min(g.gapstart, end)) ELSE <<>>
        l2 == IF end > g.gapstart
              THEN Slice(g.buf, Max(g.gapend, beg), end) ELSE <<>>
    IN  l1 \o l2

\* GapMark.point (getter) of every live mark
points(g) == [m \in DOMAIN g.marks |-> postopoint(g, g.marks[m])]

\* the growth step of movegap
\* an increase that is the shortfall rounded up to a multiple of chunksize
increase_rounded(g, sz) ==
    ((sz - gaplength(g) + g.chunksize - 1) \div g.chunksize) * g.chunksize

increase(g, sz) == ((sz - gaplength(g)) \div g.chunksize + 1) * g.chunksize

grow(g, sz) ==
    IF sz > gaplength(g)
    THEN Let(increase(g, sz), LAMBDA inc :
             [g EXCEPT !.buf = SliceAssign(g.buf, g.gapstart, g.gapstart,
                                           _array(inc)),
                       !.gapend = g.gapend + inc])
    ELSE g

\* the relocation step of movegap
shuffle(g, pos) ==
    IF pos < g.gapstart THEN
        LET newend == pos + gaplength(g)
        IN  [g EXCEPT !.buf = SliceAssign(g.buf, newend, g.gapend,
                                          Slice(g.buf, pos, g.gapstart)),
                      !.gapstart = pos,
                      !.gapend = newend]
    ELSE IF pos > g.gapend THEN
        LET newstart == pos - gaplength(g)
        IN  [g EXCEPT !.buf = SliceAssign(g.buf, g.gapstart, newstart,
                                          Slice(g.buf, g.gapend, pos)),
                      !.gapstart = newstart,
                      !.gapend = pos]
    ELSE g

movegap(g, pos, sz) ==
    LET pts == points(g)                       \* mark.pos = mark.point
        point == postopoint(g, pos)
    IN  Let(grow(g, sz), LAMBDA g1 :
        Let(shuffle(g1, pointtopos(g1, point)), LAMBDA g2 :
            [g2 EXCEPT !.marks = [m \in DOMAIN g.marks |->
                                      pointtopos(g2, pts[m])]]))

\* The `where' argument of replace: a bare point, or a GapMark (by id).
WInt(n) == [mark |-> FALSE, v |-> n]
WMark(m) == [mark |-> TRUE, v |-> m]

\* int(where)
IntOf(g, w) == IF w.mark THEN postopoint(g, g.marks[w.v]) ELSE w.v

GapBuffer_replace(g, w, sz, string) ==
    LET where == IF w.mark THEN g.marks[w.v] ELSE pointtopos(g, w.v)
        length == Len(string)
    IN  Let(movegap(g, where, length - sz), LAMBDA g1 :
        Let([g1 EXCEPT !.gapend = g1.gapend + sz], LAMBDA g2 :
        Let(g2.gapstart + length, LAMBDA newstart :
            [g2 EXCEPT !.buf = SliceAssign(g2.buf, g2.gapstart, newstart,
                                           string),
                       !.gapstart = newstart])))

\* ----------------------------------------------------------- UndoableGapBuffer
\* collapses comparing where with the start of the last entry, not its end
collapses_at_start(g, w, string, collapsible) ==
    /\ collapsible
    /\ Len(g.undolog) > 0
    /\ ~w.mark
    /\ w.v = g.undolog[Len(g.undolog)][1]
    /\ string # <<>>
    /\ g.undolog[Len(g.undolog)][3] = <<>>

\* where == undolog[-1][0] + undolog[-1][1] compares by value only for a bare
\* point: GapMark defines no __eq__, so a GapMark never equals an int.
collapses(g, w, string, collapsible) ==
    /\ collapsible
    /\ Len(g.undolog) > 0
    /\ ~w.mark
    /\ w.v = g.undolog[Len(g.undolog)][1] + g.undolog[Len(g.undolog)][2]
    /\ string # <<>>
    /\ g.undolog[Len(g.undolog)][3] = <<>>

\* journal without the collapsing branch: every edit is appended
journal_append(g, w, sz, string, collapsible) ==
    Append(g.undolog,
           <<IntOf(g, w), Len(string),
             textrange(g, IntOf(g, w), IntOf(g, w) + sz)>>)

journal(g, w, sz, string, collapsible) ==
    LET n == Len(g.undolog)
    IN  IF collapses(g, w, string, collapsible)
        THEN [g.undolog EXCEPT ![n] =
                  <<g.undolog[n][1], Len(string) + g.undolog[n][2], <<>>>>]
        ELSE Append(g.undolog,
                    <<IntOf(g, w), Len(string),
                      textrange(g, IntOf(g, w), IntOf(g, w) + sz)>>)

UndoableGapBuffer_replace(g, w, sz, string, collapsible) ==
    GapBuffer_replace([g EXCEPT !.undolog = journal(g, w, sz, string, collapsible)],
                      w, sz, string)

\* the journal slot undo(which) reverts (0-based)
undo_off(g, which) == IF IsNone(which) THEN Len(g.undolog) - 1 ELSE Val(which)

\* undo by a replace that is not journaled
undo_unjournaled(g, which) ==
    LET e == g.undolog[undo_off(g, which) + 1]
    IN  GapBuffer_replace(g, WInt(e[1]), e[2], e[3])

\* undo on a non-empty journal: the buffer afterwards ...
undo_buf(g, which) ==
    LET e == g.undolog[undo_off(g, which) + 1]
    IN  UndoableGapBuffer_replace(g, WInt(e[1]), e[2], e[3], FALSE)

\* ... and the pair it returns
undo_ret(g, which) ==
    LET e == g.undolog[undo_off(g, which) + 1]
    IN  <<(undo_off(g, which) - 1) % Len(undo_buf(g, which).undolog),
          e[1] + Len(e[3])>>

\* ------------------------------------------------------------------ the state
G == [buf |-> buf, gapstart |-> gapstart, gapend |-> gapend,
      chunksize |-> chunksize, marks |-> marks, undolog |-> undolog]

SetG(g) ==
    /\ buf' = g.buf
    /\ gapstart' = g.gapstart
    /\ gapend' = g.gapend
    /\ chunksize' = g.chunksize
    /\ marks' = g.marks
    /\ undolog' = g.undolog

\* the buffer is g
IsG(g) ==
    /\ buf = g.buf
    /\ gapstart = g.gapstart
    /\ gapend = g.gapend
    /\ chunksize = g.chunksize
    /\ marks = g.marks
    /\ undolog = g.undolog

Bounded(g, maxlen, maxcap, maxover, maxundo) ==
    /\ Len(text(g)) <= maxlen
    /\ Len(g.buf) <= maxcap
    /\ g.gapend <= Len(g.buf) + maxover
    /\ Len(g.undolog) <= maxundo

Chars == {"a", "b"}
Strings == {<<>>, <<"a">>, <<"b">>, <<"a", "b">>}
StringsU == {<<>>, <<"a">>, <<"a", "b">>}

NoEd == [kind |-> "none"]

\* no generator has been made, no connection is open
NoGen == [state |-> "none"]
NoConn == [state |-> "none"]

\* what is remembered of the last operation: its arguments, its result and
\* the text and mark points before it
Hist(op, g, w, sz, string, coll, ret) ==
    [op |-> op, where |-> w, size |-> sz, string |-> string, coll |-> coll,
     ret |-> ret, text0 |-> text(g), pts0 |-> points(g),
     ok0 |-> (g.gapend <= Len(g.buf))]

\* GapBuffer.__init__ with content=None and chunk size cs, and the marks
\* ids made by mark(0)
NewBuffer(cs, ids) ==
    [buf |-> _array(cs), gapstart |-> 0, gapend |-> cs, chunksize |-> cs,
     marks |-> [m \in ids |-> 0], undolog |-> <<>>]

InitWith(ids) ==
    /\ \E cs \in 1..MaxChunk :
          /\ buf = NewBuffer(cs, ids).buf
          /\ gapstart = NewBuffer(cs, ids).gapstart
          /\ gapend = NewBuffer(cs, ids).gapend
          /\ chunksize = cs
    /\ marks = [m \in ids |-> 0]
    /\ undolog = <<>>
    /\ ed = NoEd
    /\ killring = <<>>
    /\ peer = NoEd
    /\ registry = <<>>
    /\ buffers = <<>>
    /\ cache = <<>>
    /\ gen = NoGen
    /\ conn = NoConn
    /\ hist = [op |-> "init"]

\* ------------------------------------------- GapBuffer with marks (Spec)
Init == InitWith(1..NMarks)

\* GapBuffer.replace(where, size, string) with any arguments
GapReplace ==
    \E p \in (0 - 1)..(Len(text(G)) + 1), sz \in 0..MaxDel, string \in Strings :
        LET g2 == GapBuffer_replace(G, WInt(p), sz, string)
        IN  /\ Bounded(g2, MaxLen, MaxCap, MaxOver, 0)
            /\ SetG(g2)
            /\ hist' = Hist("replace", G, p, sz, string, FALSE, Len(string))
            /\ UNCHANGED <<ed, killring, others>>

\* GapMark.point = val
MarkSet ==
    \E m \in DOMAIN marks, val \in 0..MaxLen :
        /\ marks' = [marks EXCEPT ![m] = pointtopos(G, val)]
        /\ hist' = Hist("markset", G, val, 0, <<>>, FALSE, 0)
        /\ UNCHANGED <<buf, gapstart, gapend, chunksize, undolog, ed, killring, others>>

Next == GapReplace \/ MarkSet

Spec == Init /\ [][Next]_vars

\* --------------------------------- UndoableGapBuffer, no marks (SpecUndo)
InitUndo == InitWith({})

Intact(g) == g.gapend <= Len(g.buf)

\* A run of single-character collapsible insertions at adjacent positions:
\* its length so far, the text before its first insertion, and whether that
\* first insertion was merged into the journal entry before it.
NoRun == [n |-> 0]

RunAfter(h, g, p, sz, string, coll) ==
    IF sz = 0 /\ Len(string) = 1 /\ coll /\ p \in 0..Len(text(g))
    THEN IF h.op = "replace" /\ h.run.n >= 1 /\ p = h.where + 1
         THEN [h.run EXCEPT !.n = h.run.n + 1]
         ELSE [n |-> 1, text0 |-> text(g), ok0 |-> Intact(g),
               merged |-> collapses(g, WInt(p), string, coll)]
    ELSE NoRun

\* the text before the journal's last entry was opened
EntryText(h, g, p, string, coll) ==
    IF collapses(g, WInt(p), string, coll) THEN h.etext0 ELSE text(g)

EntryOk(h, g, p, string, coll) ==
    IF collapses(g, WInt(p), string, coll) THEN h.eok0 ELSE Intact(g)

\* UndoableGapBuffer.replace(where, size, string, collapsible), where a point
Replace ==
    \E p \in 0..(Len(text(G)) + 1), sz \in 0..MaxDel, string \in StringsU,
       coll \in BOOLEAN :
        LET g2 == UndoableGapBuffer_replace(G, WInt(p), sz, string, coll)
        IN  /\ Bounded(g2, MaxLenU, MaxCapU, MaxOverU, MaxUndo)
            /\ SetG(g2)
            /\ hist' = [op |-> "replace", where |-> p, size |-> sz,
                        string |-> string, coll |-> coll, ret |-> Len(string),
                        text0 |-> text(G), ok0 |-> Intact(G),
                        merged |-> collapses(G, WInt(p), string, coll),
                        run |-> RunAfter(hist, G, p, sz, string, coll),
                        etext0 |-> EntryText(hist, G, p, string, coll),
                        eok0 |-> EntryOk(hist, G, p, string, coll)]
            /\ UNCHANGED <<ed, killring, others>>

\* UndoableGapBuffer.undo(which): which is None or a slot of the journal
Undo ==
    \E which \in {None} \cup {Some(i) : i \in 0..(Len(undolog) - 1)} :
        IF undolog = <<>>
        THEN /\ hist' = [op |-> "undo", which |-> which, ret |-> None,
                         text0 |-> text(G), ok0 |-> Intact(G), log0 |-> undolog,
                         prev |-> hist.op, etext0 |-> text(G), eok0 |-> Intact(G)]
             /\ UNCHANGED <<buf, gapstart, gapend, chunksize, marks, undolog,
                            ed, killring, others>>
        ELSE /\ Bounded(undo_buf(G, which), MaxLenU, MaxCapU, MaxOverU, MaxUndo)
             /\ SetG(undo_buf(G, which))
             /\ hist' = [op |-> "undo", which |-> which,
                         ret |-> Some(undo_ret(G, which)),
                         text0 |-> text(G), ok0 |-> Intact(G), log0 |-> undolog,
                         prev |-> hist.op, etext0 |-> text(G), eok0 |-> Intact(G),
                         last |-> IF hist.op = "replace" THEN hist ELSE NoRun]
             /\ UNCHANGED <<ed, killring, others>>

NextUndo == Replace \/ Undo

SpecUndo == InitUndo /\ [][NextUndo]_vars

\* ------------------- typing after a boundary insertion (SpecBurst)
\* An empty UndoableGapBuffer; a first string is inserted at 0 with
\* collapsible=False; a word is typed after it one character at a time, each
\* with collapsible=True; then undo(None) is called once.
Hello == <<"h", "e", "l", "l", "o">>
World == <<" ", "w", "o", "r", "l", "d">>
FirstWords == {Hello, <<"a">>, <<"a", "b">>}
BurstWords == {World, <<"a", "b">>, <<"b">>}

IsPrefix(p, w) == Len(p) <= Len(w) /\ SubSeq(w, 1, Len(p)) = p

InitBurst == InitWith({})

InsertBoundary ==
    /\ hist.op = "init"
    /\ \E X \in FirstWords :
          /\ SetG(UndoableGapBuffer_replace(G, WInt(0), 0, X, FALSE))
          /\ hist' = [op |-> "boundary", first |-> X, typed |-> <<>>]
    /\ UNCHANGED <<ed, killring, others>>

TypeChar ==
    /\ hist.op \in {"boundary", "typed"}
    /\ \E w \in BurstWords :
          /\ IsPrefix(hist.typed, w)
          /\ Len(hist.typed) < Len(w)
          /\ SetG(UndoableGapBuffer_replace(G, WInt(size(G)), 0,
                                            <<w[Len(hist.typed) + 1]>>, TRUE))
          /\ hist' = [hist EXCEPT !.op = "typed",
                                  !.typed = Append(hist.typed, w[Len(hist.typed) + 1])]
    /\ UNCHANGED <<ed, killring, others>>

UndoOnce ==
    /\ hist.op = "typed"
    /\ SetG(undo_buf(G, None))
    /\ hist' = [op |-> "undone", first |-> hist.first, typed |-> hist.typed,
                log0 |-> undolog, ret |-> undo_ret(G, None)]
    /\ UNCHANGED <<ed, killring, others>>

NextBurst == InsertBoundary \/ TypeChar \/ UndoOnce

SpecBurst == InitBurst /\ [][NextBurst]_vars

\* ------------------------------------------------- claims: the gap buffer
\* a replace whose arguments are in range for the text it was applied to
InRange(h) == h.where \in 0..Len(h.text0) /\ h.size <= Len(h.text0) - h.where

\* T[0..where) + s + T[where+d..end)
Spliced(h) ==
    SubSeq(h.text0, 1, h.where) \o h.string
        \o SubSeq(h.text0, h.where + h.size + 1, Len(h.text0))

\* C1: after any sequence of replace calls, 0 <= gapstart <= gapend <= capacity
\* and size = capacity - (gapend - gapstart), size being the length of the text.
C1_GapInvariant ==
    /\ 0 <= gapstart
    /\ gapstart <= gapend
    /\ gapend <= Len(buf)
    /\ size(G) = Len(buf) - (gapend - gapstart)
    /\ Len(text(G)) = size(G)

\* C2: in every reachable state with text T, replace(where, d, s) with where in
\* 0..len(T) and d in 0..len(T)-where returns len(s) and leaves
\* T[0..where) + s + T[where+d..end).
C2_ReplaceSplices ==
    (hist.op = "replace" /\ InRange(hist)) =>
        /\ hist.ret = Len(hist.string)
        /\ text(G) = Spliced(hist)

\* C2 for the calls made while gapend <= capacity
C2_ReplaceSplicesIntact ==
    (hist.op = "replace" /\ InRange(hist) /\ hist.ok0) =>
        /\ hist.ret = Len(hist.string)
        /\ text(G) = Spliced(hist)

IsInsert(h) == h.op = "replace" /\ h.size = 0 /\ h.where \in 0..Len(h.text0)

\* the step from the state after replace(P, 0, X) by replace(P, len(X), '')
RoundTrip ==
    /\ IsInsert(hist)
    /\ Len(hist.string) >= 1
    /\ hist'.op = "replace"
    /\ hist'.where = hist.where
    /\ hist'.size = Len(hist.string)
    /\ hist'.string = <<>>

\* that step gives back the text and the points of the marks outside the span
Restored ==
    /\ text(G)' = hist.text0
    /\ \A m \in DOMAIN marks :
          (hist.pts0[m] < hist.where
              \/ hist.pts0[m] >= hist.where + Len(hist.string))
          => points(G)'[m] = hist.pts0[m]

\* C3: replace(P, 0, X) and then replace(P, len(X), ''): the text is the text
\* before the insertion, and every mark whose point was outside [P, P+len(X))
\* before the insertion has that point again.
C3_InsertDeleteRoundTrip == [][RoundTrip => Restored]_vars

\* C3 for the round trips begun while gapend <= capacity
C3_RoundTripIntact == [][(RoundTrip /\ hist.ok0) => Restored]_vars

IsDelete(h) == h.op = "replace" /\ h.string = <<>> /\ h.size >= 1 /\ InRange(h)

\* marks at or after the deleted range move back, marks inside it go to P
MarksFollowDelete ==
    \A m \in DOMAIN marks :
        /\ hist.pts0[m] >= hist.where + hist.size
               => points(G)[m] = hist.pts0[m] - hist.size
        /\ (hist.pts0[m] >= hist.where /\ hist.pts0[m] < hist.where + hist.size)
               => points(G)[m] = hist.where

\* C5: replace(P, n, '') moves every mark at or after P+n back by n and every
\* mark inside [P, P+n) to P.
C5_DeleteShiftsMarks == IsDelete(hist) => MarksFollowDelete

\* C5 for the deletions made while gapend <= capacity
C5_DeleteShiftsMarksIntact == (IsDelete(hist) /\ hist.ok0) => MarksFollowDelete

\* ------------------------------------------------ claims: the undo journal
\* an undo with an unset token right after a run of collapsible insertions
UndoAfterRun ==
    /\ hist.op = "undo"
    /\ IsNone(hist.which)
    /\ hist.prev = "replace"
    /\ hist.last.run.n >= 1

\* t without the span [w, w+n)
Without(t, w, n) == SubSeq(t, 1, w) \o SubSeq(t, w + n + 1, Len(t))

C7_BoundaryKeepsFirst ==
    /\ (hist.op = "typed" /\ hist.first = Hello /\ hist.typed = World)
           => text(G) = Hello \o World
    /\ (hist.op = "undone" /\ hist.first = Hello /\ hist.typed = World)
           => text(G) = Hello

\* C7 as the code has it: the characters typed after the first insertion are
\* merged into its journal entry, the text is first + typed, and one undo
\* removes both ("hello world" -> "").
C7_UndoRemovesFirstToo ==
    /\ hist.op = "typed" => text(G) = hist.first \o hist.typed
    /\ hist.op = "undone" =>
          /\ hist.log0 = <<<<0, Len(hist.first) + Len(hist.typed), <<>>>>>>
          /\ text(G) = <<>>

\* "hello", then " world" typed, then one undo: the journal held one entry
C7_HelloWorldUndone ==
    /\ hist.op = "undone"
    /\ hist.first = Hello
    /\ hist.typed = World
    /\ hist.log0 = <<<<0, 11, <<>>>>>>
    /\ text(G) = <<>>

\* an undo with an unset token right after a replace in range that was
\* journaled as an entry of its own
UndoAfterReplace ==
    /\ hist.op = "undo"
    /\ IsNone(hist.which)
    /\ hist.prev = "replace"
    /\ InRange(hist.last)
    /\ ~hist.last.merged

\* C8: replace(where, d, s) in range, journaled as its own entry, then an undo
\* with an unset token: the text is T again and the point returned is where + d.
C8_UndoRestores ==
    UndoAfterReplace =>
        /\ text(G) = hist.last.text0
        /\ Val(hist.ret)[2] = hist.last.where + hist.last.size

\* C8 for the replace calls made while gapend <= capacity
C8_UndoRestoresIntact ==
    (UndoAfterReplace /\ hist.last.ok0) =>
        /\ text(G) = hist.last.text0
        /\ Val(hist.ret)[2] = hist.last.where + hist.last.size

\* ------------------------------------------------------------------ Editor
\* A session value s is the state an Editor command works on:
\*   g      the UndoableGapBuffer, g.marks being the live GapMarks by id
\*   ed     the Editor's fields; cursor is a mark id, the_mark and the members
\*          of mark_ring are None or Some(mark id)
\*   kr     context.killring
\*   notes  what the command has passed to whine() so far
\*   exc    the exception the command has raised ("" while it has raised none)
\* A command is a composition of steps on s.  Once an exception is raised the
\* remaining steps are skipped: every step leaves s as it is when s.exc # "".
MaxLenE == 2       \* longest text explored (SpecEd)
MaxCapE == 2       \* largest array length explored (SpecEd)
MaxOverE == 1      \* how far gapend is followed past the array (SpecEd)
MaxUndoE == 2      \* longest undo journal explored (SpecEd)
MaxRing == 1       \* longest mark_ring explored
MaxKill == 1       \* longest kill ring explored
MaxKillLen == 1    \* longest kill-ring entry explored
MaxYank == 2       \* largest yank_state explored
ChunkE == 2        \* the chunksize the Editor is made with (SpecEd)

EOL == <<"\n">>
Keys == {"a"}          \* the keys typed; "\n" comes from insert_newline and open_line

Raised(s) == s.exc # ""

raise(s, e) == IF Raised(s) THEN s ELSE [s EXCEPT !.exc = e]

whine(s, k) == IF Raised(s) THEN s ELSE [s EXCEPT !.notes = Append(@, k)]

\* Mark.point (getter)
point(s, id) ==
    IF id \in DOMAIN s.g.marks THEN postopoint(s.g, s.g.marks[id]) ELSE 0

\* Mark.point = val
set_point(s, id, val) ==
    IF Raised(s) THEN s ELSE [s EXCEPT !.g.marks[id] = pointtopos(s.g, val)]

\* Buffer.mark(where): a new GapMark, whose id is Len(marks) afterwards
Buffer_mark(s, where) ==
    IF Raised(s) THEN s
    ELSE [s EXCEPT !.g.marks = Append(s.g.marks, pointtopos(s.g, where))]

\* Viewer.move(delta): the state afterwards ...
Viewer_move(s, delta) ==
    IF Raised(s) THEN s
    ELSE [set_point(s, s.ed.cursor, point(s, s.ed.cursor) + delta)
             EXCEPT !.ed.goal_column = None]

\* ... and the distance it returns
moved(s, delta) == point(Viewer_move(s, delta), s.ed.cursor) - point(s, s.ed.cursor)

\* Viewer.character_at_point: self.buf[self.cursor.point]
character_at_point(s) ==
    textrange(s.g, point(s, s.ed.cursor), point(s, s.ed.cursor) + 1)

\* Viewer.find_character(cs, delta) for a one-character cs: [s, r], r the
\* character found or ''
RECURSIVE find_character(_, _, _)
find_character(s, cs, delta) ==
    Let(Viewer_move(s, delta), LAMBDA s1 :
        IF moved(s, delta) = 0 THEN [s |-> s1, r |-> <<>>]
        ELSE IF character_at_point(s1) = cs THEN [s |-> s1, r |-> cs]
        ELSE find_character(s1, cs, delta))

\* Viewer.save_excursion(), up to the yield: [s, sv], sv what it saved
excursion_enter(s) ==
    Let(Buffer_mark(s, point(s, s.ed.cursor)), LAMBDA s1 :
    Let(Buffer_mark(s1, IF IsNone(s.ed.the_mark)
                        THEN point(s, s.ed.cursor)
                        ELSE point(s, Val(s.ed.the_mark))), LAMBDA s2 :
        [s |-> s2,
         sv |-> [cursor |-> Len(s1.g.marks), mark |-> Len(s2.g.marks),
                 mark_ring |-> s.ed.mark_ring,
                 goal_column |-> s.ed.goal_column]]))

\* Viewer.save_excursion(), after the yield; not run when the body raised
excursion_exit(s, sv) ==
    IF Raised(s) THEN s
    ELSE [set_point(s, s.ed.cursor, point(s, sv.cursor))
             EXCEPT !.ed.the_mark = Some(sv.mark),
                    !.ed.mark_ring = sv.mark_ring,
                    !.ed.goal_column = sv.goal_column]

\* Viewer.beginning_of_line() (count=None)
beginning_of_line(s) ==
    IF Raised(s) \/ point(s, s.ed.cursor) = 0 THEN s
    ELSE Let(excursion_enter(s), LAMBDA e :
         Let(Viewer_move(e.s, 0 - 1), LAMBDA s1 :
         Let(excursion_exit(s1, e.sv), LAMBDA s2 :
             IF character_at_point(s1) = EOL THEN s2
             ELSE Let(find_character(s2, EOL, 0 - 1), LAMBDA f :
                      IF f.r # <<>> THEN Viewer_move(f.s, 1) ELSE f.s))))

\* Viewer.end_of_line() (count=None)
end_of_line(s) ==
    IF Raised(s) \/ character_at_point(s) = EOL THEN s
    ELSE find_character(s, EOL, 1).s

\* Viewer.iswordchar on the characters typed here
iswordchar(c) == c \in {<<"a">>, <<"b">>}

\* Viewer.ispred(iswordchar, delta): [s, r], r whether the result is true
ispred(s, delta) ==
    Let(excursion_enter(s), LAMBDA e :
    Let(IF delta # 0 THEN Viewer_move(e.s, delta) ELSE e.s, LAMBDA s1 :
        [s |-> excursion_exit(s1, e.sv),
         r |-> /\ ~(delta # 0 /\ moved(e.s, delta) = 0)
               /\ iswordchar(character_at_point(s1))]))

\* Viewer.word_forward() and word_backward() (count=1), dir = 1 or -1; the
\* test is isword() forwards and isword(-1) backwards
RECURSIVE in_word(_, _)
in_word(s, dir) ==
    Let(ispred(s, IF dir < 0 THEN dir ELSE 0), LAMBDA i :
        IF Raised(s) \/ ~i.r THEN i.s
        ELSE Let(Viewer_move(i.s, dir), LAMBDA s1 :
                 IF moved(i.s, dir) = 0 THEN s1 ELSE in_word(s1, dir)))

RECURSIVE to_word(_, _)
to_word(s, dir) ==
    Let(ispred(s, IF dir < 0 THEN dir ELSE 0), LAMBDA i :
        IF Raised(s) THEN s
        ELSE IF i.r THEN in_word(i.s, dir)
        ELSE Let(Viewer_move(i.s, dir), LAMBDA s1 :
                 IF moved(i.s, dir) = 0 THEN s1 ELSE to_word(s1, dir)))

word_forward(s) == to_word(s, 1)

word_backward(s) == to_word(s, 0 - 1)

\* Editor.writable(), and LongPrompt.writable() for a session that has a
\* divider
writable(s) ==
    IF "divider" \in DOMAIN s.ed
    THEN s.ed.writable /\ point(s, s.ed.cursor) >= s.ed.divider
    ELSE s.ed.writable

\* Editor.replace without the writable() test
Editor_replace_unguarded(s, count, string, collapsible) ==
    IF Raised(s) THEN [s |-> s, r |-> None]
    ELSE [s |-> [s EXCEPT !.g = UndoableGapBuffer_replace(
                                    s.g, WMark(s.ed.cursor), count, string,
                                    collapsible)],
          r |-> Some(Len(string))]

\* Editor.replace(count, string, collapsible) -> Viewer.replace -> Mark.replace
\* -> Buffer.replace: [s, r], r the value returned (None when read-only)
Editor_replace(s, count, string, collapsible) ==
    IF Raised(s) THEN [s |-> s, r |-> None]
    ELSE IF ~writable(s)
    THEN [s |-> whine(s, "window is readonly"), r |-> None]
    ELSE [s |-> [s EXCEPT !.g = UndoableGapBuffer_replace(
                                    s.g, WMark(s.ed.cursor), count, string,
                                    collapsible)],
          r |-> Some(Len(string))]

\* Viewer.insert(s, collapsible): self.cursor.point += self.replace(0, s, ...)
Viewer_insert(s, string, collapsible) ==
    Let(Editor_replace(s, 0, string, collapsible), LAMBDA r :
        IF Raised(s) THEN s
        ELSE IF IsNone(r.r) THEN raise(r.s, "TypeError")
        ELSE set_point(r.s, s.ed.cursor, point(s, s.ed.cursor) + Val(r.r)))

\* Viewer.delete(count)
Viewer_delete(s, count) == Editor_replace(s, count, <<>>, FALSE).s

\* Context.copy(data, append)
Context_copy(s, data, append) ==
    IF Raised(s) THEN s
    ELSE IF s.kr = <<>> \/ IsNone(append)
    THEN [s EXCEPT !.kr = Append(s.kr, data)]
    ELSE IF Val(append)
    THEN [s EXCEPT !.kr[Len(s.kr)] = s.kr[Len(s.kr)] \o data]
    ELSE [s EXCEPT !.kr[Len(s.kr)] = data \o s.kr[Len(s.kr)]]

\* Context.yank(off)
Context_yank(s, off) ==
    IF s.kr # <<>> THEN s.kr[Len(s.kr) - ((off - 1) % Len(s.kr))] ELSE <<>>

\* Viewer.region(mark) when the_mark is set
region(s) ==
    textrange(s.g,
              Min(point(s, s.ed.cursor), point(s, Val(s.ed.the_mark))),
              Max(point(s, s.ed.cursor), point(s, Val(s.ed.the_mark))))

\* Viewer.set_mark() (where=None, prefix=None)
set_mark(s) ==
    IF Raised(s) THEN s
    ELSE Let(Buffer_mark(s, point(s, s.ed.cursor)), LAMBDA s1 :
             [s1 EXCEPT !.ed.mark_ring = Append(s.ed.mark_ring, s.ed.the_mark),
                        !.ed.the_mark = Some(Len(s1.g.marks))])

\* Viewer.exchange_point_and_mark() when the_mark is set
exchange_point_and_mark(s) ==
    IF Raised(s) THEN s
    ELSE [s EXCEPT !.ed.cursor = Val(s.ed.the_mark),
                   !.ed.the_mark = Some(s.ed.cursor)]

\* insert_region with the mark set after the insertion
insert_then_mark(s, string) == set_mark(Viewer_insert(s, string, FALSE))

\* Viewer.insert_region(s)
insert_region(s, string) == Viewer_insert(set_mark(s), string, FALSE)

\* ---------------------------------------------------------- Editor commands
KillCommands == {"kill_region", "kill_to_end_of_line", "kill_word_forward",
                 "kill_word_backward"}

\* self.last_command.startswith('kill_')
last_was_kill(s) == s.ed.last_command \in KillCommands

Abs(n) == IF n < 0 THEN 0 - n ELSE n

\* ' '.isspace(); '' is not a space
isspace(k) == k \in {" ", "\n"}

\* Editor.kill_region(mark, append); region() compares the cursor with
\* the_mark, which raises TypeError when the_mark is None
kill_region(s, mark, append) ==
    LET mk == IF IsNone(mark) THEN s.ed.the_mark ELSE mark
        m == Val(mk)
        before == point(s, m) < point(s, s.ed.cursor)
    IN  IF Raised(s) THEN s
        ELSE IF IsNone(mk) THEN whine(s, "no mark is set")
        ELSE IF IsNone(s.ed.the_mark) THEN raise(s, "TypeError")
        ELSE Let(Context_copy(s, region(s),
                              IF append THEN Some(before) ELSE None),
                 LAMBDA s1 :
             Let([s1 EXCEPT !.ed.cursor = IF before THEN m ELSE @],
                 LAMBDA s2 :
             Let(Viewer_delete(s2, Abs(point(s, m) - point(s, s.ed.cursor))),
                 LAMBDA s3 :
                 [s3 EXCEPT !.ed.yank_state = 1])))

\* Editor.self_insert(key) (count=1, fill_column=0)
self_insert(s, key) ==
    Viewer_insert(s, <<key>>,
                  ~(/\ s.ed.last_command = "self_insert"
                    /\ ~isspace(s.ed.last_key)
                    /\ isspace(key)))

\* Editor.insert_newline() (count=1)
insert_newline(s) == Viewer_insert(s, EOL, FALSE)

\* Editor.delete_forward(count) for count = 1 and count = -1
delete_forward(s, count) ==
    IF count < 0
    THEN Viewer_delete(Viewer_move(s, count), 0 - moved(s, count))
    ELSE Viewer_delete(s, count)

\* Editor.delete_backward() (count=1)
delete_backward(s) == delete_forward(s, 0 - 1)

\* Editor.kill_to_end_of_line(count=None)
kill_to_end_of_line(s) ==
    Let(Buffer_mark(s, point(s, s.ed.cursor)), LAMBDA s0 :
    Let(Len(s0.g.marks), LAMBDA m :
    Let(end_of_line(s0), LAMBDA s1 :
    Let(IF point(s1, m) = point(s1, s1.ed.cursor)
        THEN Viewer_move(s1, 1) ELSE s1, LAMBDA s2 :
        IF point(s2, m) = point(s2, s2.ed.cursor) THEN s2
        ELSE kill_region(s2, Some(m), last_was_kill(s))))))

\* Editor.kill_word_forward() and kill_word_backward() (count=1)
kill_word(s, dir) ==
    Let(Buffer_mark(s, point(s, s.ed.cursor)), LAMBDA s0 :
        kill_region(to_word(s0, dir), Some(Len(s0.g.marks)), last_was_kill(s)))

kill_word_forward(s) == kill_word(s, 1)

kill_word_backward(s) == kill_word(s, 0 - 1)

\* Editor.yank() (arg=None)
yank(s) == insert_region(s, Context_yank(s, s.ed.yank_state))

\* Editor.yank_pop() (arg=1); self.cursor > self.the_mark raises TypeError
\* when the_mark is None
yank_pop(s) ==
    LET s1 == [s EXCEPT !.ed.yank_state = @ + 1]
    IN  IF s.ed.last_command \notin {"yank", "yank_pop"}
        THEN whine(s, "last command was not a yank")
        ELSE IF IsNone(s.ed.the_mark) THEN raise(s1, "TypeError")
        ELSE Let(IF point(s1, s1.ed.cursor) > point(s1, Val(s1.ed.the_mark))
                 THEN exchange_point_and_mark(s1) ELSE s1, LAMBDA s2 :
             Let(Viewer_delete(s2, Abs(point(s2, Val(s2.ed.the_mark))
                                       - point(s2, s2.ed.cursor))),
                 LAMBDA s3 :
                 insert_region(s3, Context_yank(s3, s3.ed.yank_state))))

\* Editor.undo() (count=1).  With an empty journal buf.undo returns None and
\* the tuple assignment raises TypeError; with a journal the new undo_state
\* is a number, so the 'Nothing to undo' whine is not reached.
Editor_undo(s) ==
    LET s1 == IF s.ed.last_command # "undo"
              THEN [s EXCEPT !.ed.undo_state = None] ELSE s
    IN  IF ~writable(s) THEN whine(s, "window is read-only")
        ELSE IF s1.g.undolog = <<>> THEN raise(s1, "TypeError")
        ELSE Let(undo_ret(s1.g, s1.ed.undo_state), LAMBDA r :
             Let([s1 EXCEPT !.g = undo_buf(s1.g, s1.ed.undo_state),
                            !.ed.undo_state = Some(r[1])], LAMBDA s2 :
                 set_point(s2, s2.ed.cursor, r[2])))

Reverse(t) == [i \in 1..Len(t) |-> t[Len(t) + 1 - i]]

\* Editor.transpose_chars(); len(self.buf) raises ValueError when size < 0
transpose_chars(s) ==
    LET p == point(s, s.ed.cursor)
        off == IF p = size(s.g) THEN 2 ELSE 1
    IN  IF size(s.g) < 0 THEN raise(s, "ValueError")
        ELSE Let(Viewer_move(s, 0 - off), LAMBDA s1 :
                 IF moved(s, 0 - off) # 0 - off
                 THEN whine(set_point(s1, s1.ed.cursor, p), "At beginning")
                 ELSE Let(point(s1, s1.ed.cursor), LAMBDA q :
                          Viewer_move(
                              Editor_replace(
                                  s1, 2, Reverse(textrange(s1.g, q, q + 2)),
                                  FALSE).s,
                              2)))

\* Editor.open_line() (count=1)
open_line(s) ==
    Let(excursion_enter(s), LAMBDA e :
        excursion_exit(Viewer_insert(e.s, EOL, FALSE), e.sv))

\* Editor.toggle_writable()
toggle_writable(s) == [s EXCEPT !.ed.writable = ~@]

\* ------------------------------------------------- the Editor session (SpecEd)
\* GapBuffer.marks is a WeakSet: a GapMark lives while the Editor refers to it.
\* The marks referred to, in the order cursor, the_mark, mark_ring:
refs(e) ==
    LET ring == SelectSeq(e.mark_ring, LAMBDA o : ~IsNone(o))
    IN  <<e.cursor>>
        \o (IF IsNone(e.the_mark) THEN <<>> ELSE <<Val(e.the_mark)>>)
        \o [i \in 1..Len(ring) |-> Val(ring[i])]

First(r, id) ==
    CHOOSE i \in 1..Len(r) : r[i] = id /\ \A j \in 1..(i - 1) : r[j] # id

Firsts(r) == {First(r, r[i]) : i \in 1..Len(r)}

NewId(r, id) == Cardinality({k \in Firsts(r) : k <= First(r, id)})

\* the session with the unreferenced marks dropped and the others numbered in
\* the order of refs
Collected(s) ==
    LET r == refs(s.ed)
        old(k) == r[CHOOSE i \in Firsts(r) :
                        Cardinality({j \in Firsts(r) : j <= i}) = k]
        renamed(o) == IF IsNone(o) THEN None ELSE Some(NewId(r, Val(o)))
    IN  [s EXCEPT !.g.marks = [k \in 1..Cardinality(Firsts(r)) |->
                                   s.g.marks[old(k)]],
                  !.ed.cursor = NewId(r, s.ed.cursor),
                  !.ed.the_mark = renamed(s.ed.the_mark),
                  !.ed.mark_ring = [i \in 1..Len(s.ed.mark_ring) |->
                                        renamed(s.ed.mark_ring[i])]]

BoundedEd(s) ==
    /\ Bounded(s.g, MaxLenE, MaxCapE, MaxOverE, MaxUndoE)
    /\ Len(s.ed.mark_ring) <= MaxRing
    /\ Len(s.kr) <= MaxKill
    /\ \A i \in 1..Len(s.kr) : Len(s.kr[i]) <= MaxKillLen
    /\ s.ed.yank_state <= MaxYank

\* the state a command starts from
Sess == [g |-> G, ed |-> ed, kr |-> killring, notes |-> <<>>, exc |-> ""]

\* The Editor compares last_command with 'self_insert', 'undo', 'yank' and
\* 'yank_pop', and tests whether it starts with 'kill_'; every other command
\* is recorded as "other".
Recorded(name) ==
    IF name \in {"self_insert", "undo", "yank", "yank_pop"} \cup KillCommands
    THEN name ELSE "other"

\* Window.input_char: it runs the command bound to the key and then records
\* last_command and last_key.  The Editor reads last_key only after a
\* self_insert, so it is kept for self_insert alone.  Whether a command that
\* raised is recorded is left open.
Commit(name, key, s, c) ==
    /\ BoundedEd(c)
    /\ SetG(c.g)
    /\ killring' = c.kr
    /\ UNCHANGED others
    /\ \E recorded \in (IF Raised(s) THEN BOOLEAN ELSE {TRUE}) :
          ed' = IF recorded
                THEN [c.ed EXCEPT !.last_command = Recorded(name),
                                  !.last_key = key]
                ELSE c.ed
    /\ hist' = [op |-> Recorded(name), exc |-> s.exc, notes |-> s.notes]

Dispatch(name, key, s) == Commit(name, key, s, Collected(s))

\* Editor(chunksize=ChunkE): Viewer.__init__ and Editor.__init__
InitEd ==
    /\ buf = NewBuffer(ChunkE, {}).buf
    /\ gapstart = 0
    /\ gapend = ChunkE
    /\ chunksize = ChunkE
    /\ marks = <<0>>
    /\ undolog = <<>>
    /\ ed = [cursor |-> 1, the_mark |-> None, mark_ring |-> <<>>,
             yank_state |-> 1, undo_state |-> None, goal_column |-> None,
             writable |-> TRUE, last_command |-> "", last_key |-> ""]
    /\ killring = <<>>
    /\ peer = NoEd
    /\ registry = <<>>
    /\ buffers = <<>>
    /\ cache = <<>>
    /\ gen = NoGen
    /\ conn = NoConn
    /\ hist = [op |-> "init", exc |-> "", notes |-> <<>>]

SelfInsert == \E key \in Keys : Dispatch("self_insert", key, self_insert(Sess, key))
InsertNewline == Dispatch("insert_newline", "", insert_newline(Sess))
DeleteForward == Dispatch("delete_forward", "", delete_forward(Sess, 1))
DeleteBackward == Dispatch("delete_backward", "", delete_backward(Sess))
KillRegion == Dispatch("kill_region", "", kill_region(Sess, None, FALSE))
KillToEndOfLine == Dispatch("kill_to_end_of_line", "", kill_to_end_of_line(Sess))
KillWordForward == Dispatch("kill_word_forward", "", kill_word_forward(Sess))
KillWordBackward == Dispatch("kill_word_backward", "", kill_word_backward(Sess))
Yank == Dispatch("yank", "", yank(Sess))
YankPop == Dispatch("yank_pop", "", yank_pop(Sess))
EditorUndo == Dispatch("undo", "", Editor_undo(Sess))
TransposeChars == Dispatch("transpose_chars", "", transpose_chars(Sess))
OpenLine == Dispatch("open_line", "", open_line(Sess))
ToggleWritable == Dispatch("toggle_writable", "", toggle_writable(Sess))
MoveForward == Dispatch("move_forward", "", Viewer_move(Sess, 1))
MoveBackward == Dispatch("move_backward", "", Viewer_move(Sess, 0 - 1))
SetMark == Dispatch("set_mark", "", set_mark(Sess))

NextEd ==
    \/ SelfInsert \/ InsertNewline \/ DeleteForward \/ DeleteBackward
    \/ KillRegion \/ KillToEndOfLine \/ KillWordForward \/ KillWordBackward
    \/ Yank \/ YankPop \/ EditorUndo \/ TransposeChars \/ OpenLine
    \/ ToggleWritable \/ MoveForward \/ MoveBackward \/ SetMark

SpecEd == InitEd /\ [][NextEd]_vars

\* ------------------------------------------------ LongPrompt (SpecPrompt)
\* A prompt is an Editor session with the fields prompt, divider, histptr,
\* history and stash.
PromptStrings == {<<"a">>}

\* LongPrompt.histories[history]: what earlier prompts left when destroyed
Histories == {<<>>, << <<"a">> >>}

\* len(self.buf) raises ValueError when size is negative
len(s) == size(s.g)

\* self.buf[self.divider:]
suffix(s) == textrange(s.g, s.ed.divider, len(s))

\* history[-k]
FromEnd(h, k) == Len(h) + 1 - k

\* LongPrompt.move_history(offset)
move_history(s, offset) ==
    LET new_ptr == s.ed.histptr - offset
        old == suffix(s)
        s1 == IF s.ed.histptr = 0
              THEN [s EXCEPT !.ed.stash = old]
              ELSE [s EXCEPT !.ed.history[FromEnd(s.ed.history, s.ed.histptr)] = old]
        new == IF new_ptr = 0 THEN s1.ed.stash
               ELSE s1.ed.history[FromEnd(s1.ed.history, new_ptr)]
    IN  IF Raised(s) \/ new_ptr < 0 \/ new_ptr > Len(s.ed.history) THEN s
        ELSE IF len(s) < 0 THEN raise(s, "ValueError")
        ELSE Let(Viewer_delete(set_point(s1, s1.ed.cursor, s1.ed.divider),
                               Len(old)),
                 LAMBDA s2 :
             Let(Viewer_insert(s2, new, FALSE), LAMBDA s3 :
                 IF Raised(s3) THEN s3 ELSE [s3 EXCEPT !.ed.histptr = new_ptr]))

\* LongPrompt.previous_history() and next_history()
previous_history(s) == move_history(s, 0 - 1)

next_history(s) == move_history(s, 1)

\* Viewer.__init__, Editor.__init__ and LongPrompt.__init__ up to the
\* insertion of the prompt, the divider being 0
NewPrompt(S, h) ==
    [g |-> NewBuffer(ChunkE, 1..1),
     ed |-> [cursor |-> 1, the_mark |-> None, mark_ring |-> <<>>,
             yank_state |-> 1, undo_state |-> None, goal_column |-> None,
             writable |-> TRUE, last_command |-> "", last_key |-> "",
             prompt |-> S, divider |-> 0, histptr |-> 0, history |-> h,
             stash |-> <<>>],
     kr |-> <<>>, notes |-> <<>>, exc |-> ""]

\* LongPrompt(prompt=S, chunksize=ChunkE): the prompt is inserted and the
\* divider is the cursor after it; end_of_buffer leaves the cursor there
LongPrompt(S, h) ==
    Let(Viewer_insert(NewPrompt(S, h), S, FALSE), LAMBDA s :
        [s EXCEPT !.ed.divider = point(s, s.ed.cursor)])

InitPrompt ==
    \E S \in PromptStrings, h \in Histories :
        /\ buf = LongPrompt(S, h).g.buf
        /\ gapstart = LongPrompt(S, h).g.gapstart
        /\ gapend = LongPrompt(S, h).g.gapend
        /\ chunksize = ChunkE
        /\ marks = LongPrompt(S, h).g.marks
        /\ undolog = LongPrompt(S, h).g.undolog
        /\ ed = LongPrompt(S, h).ed
        /\ killring = <<>>
        /\ peer = NoEd
        /\ registry = <<>>
        /\ buffers = <<>>
        /\ cache = <<>>
        /\ gen = NoGen
        /\ conn = NoConn
        /\ hist = [op |-> "init", exc |-> "", notes |-> <<>>]

PreviousHistory == Dispatch("previous_history", "", previous_history(Sess))
NextHistory == Dispatch("next_history", "", next_history(Sess))

NextPrompt == NextEd \/ PreviousHistory \/ NextHistory

SpecPrompt == InitPrompt /\ [][NextPrompt]_vars

\* --------------------------------- two sessions on one Buffer (SpecShare)
\* ed is the session made first and peer the one made from it with
\* Editor(prototype=ed); both hold the same Buffer, so G and its marks are
\* theirs in common.  The commands run here make no mark that is let go, so
\* the marks keep their ids.
Broken == Some(0)      \* a Mark made of None: its GapMark is None

\* self.buf.mark(o) for o None or a Mark of the prototype, as the k-th mark
\* made after the n there are
Cloned(o, n, k) == IF IsNone(o) THEN Broken ELSE Some(n + k)

\* the Marks among what the prototype holds, in the order the new session
\* makes its own: cursor, the_mark, mark_ring
Held(e) == <<Some(e.cursor), e.the_mark>> \o e.mark_ring

\* how many of the first i of them are Marks
Marks(h, i) == Cardinality({j \in 1..i : ~IsNone(h[j])})

\* Viewer.__init__ and Editor.__init__ with prototype=e
Editor_prototype(s) ==
    Let(Held(s.ed), LAMBDA h :
    Let(Len(s.g.marks), LAMBDA n :
        [g |-> [s.g EXCEPT !.marks =
                    s.g.marks \o [k \in 1..Marks(h, Len(h)) |->
                        pointtopos(s.g, point(s, Val(h[
                            CHOOSE j \in 1..Len(h) :
                                ~IsNone(h[j]) /\ Marks(h, j) = k])))]],
         ed |-> [cursor |-> n + 1,
                 the_mark |-> Cloned(h[2], n, Marks(h, 2)),
                 mark_ring |-> [i \in 1..Len(s.ed.mark_ring) |->
                                    Cloned(h[2 + i], n, Marks(h, 2 + i))],
                 yank_state |-> s.ed.yank_state,
                 undo_state |-> s.ed.undo_state,
                 goal_column |-> s.ed.goal_column,
                 writable |-> s.ed.writable,
                 last_command |-> "", last_key |-> ""]]))

\* the session a command of `who` starts from
SessOf(who) ==
    [g |-> G, ed |-> IF who = "ed" THEN ed ELSE peer, kr |-> killring,
     notes |-> <<>>, exc |-> ""]

Sessions == IF peer = NoEd THEN {"ed"} ELSE {"ed", "peer"}

\* Window.input_char in the window of session who
CommitAs(who, name, key, s) ==
    /\ BoundedEd(s)
    /\ SetG(s.g)
    /\ killring' = s.kr
    /\ UNCHANGED <<registry, buffers, cache, gen, conn>>
    /\ \E recorded \in (IF Raised(s) THEN BOOLEAN ELSE {TRUE}) :
          Let(IF recorded
              THEN [s.ed EXCEPT !.last_command = Recorded(name),
                                !.last_key = key]
              ELSE s.ed, LAMBDA e :
              /\ ed' = IF who = "ed" THEN e ELSE ed
              /\ peer' = IF who = "ed" THEN peer ELSE e)
    /\ hist' = [op |-> name, who |-> who, exc |-> s.exc, notes |-> s.notes]

Split ==
    /\ peer = NoEd
    /\ Let(Editor_prototype(Sess), LAMBDA c :
           /\ SetG(c.g)
           /\ peer' = c.ed)
    /\ hist' = [op |-> "prototype", who |-> "peer", exc |-> "", notes |-> <<>>]
    /\ UNCHANGED <<ed, killring, registry, buffers, cache, gen, conn>>

ShareSelfInsert ==
    \E who \in Sessions, key \in Keys :
        CommitAs(who, "self_insert", key, self_insert(SessOf(who), key))
ShareDeleteForward ==
    \E who \in Sessions :
        CommitAs(who, "delete_forward", "", delete_forward(SessOf(who), 1))
ShareDeleteBackward ==
    \E who \in Sessions :
        CommitAs(who, "delete_backward", "", delete_backward(SessOf(who)))
ShareTransposeChars ==
    \E who \in Sessions :
        CommitAs(who, "transpose_chars", "", transpose_chars(SessOf(who)))
ShareUndo ==
    \E who \in Sessions : CommitAs(who, "undo", "", Editor_undo(SessOf(who)))
ShareMoveForward ==
    \E who \in Sessions :
        CommitAs(who, "move_forward", "", Viewer_move(SessOf(who), 1))
ShareMoveBackward ==
    \E who \in Sessions :
        CommitAs(who, "move_backward", "", Viewer_move(SessOf(who), 0 - 1))
ShareSetMark ==
    \E who \in Sessions : CommitAs(who, "set_mark", "", set_mark(SessOf(who)))

NextShare ==
    \/ Split
    \/ ShareSelfInsert \/ ShareDeleteForward \/ ShareDeleteBackward
    \/ ShareTransposeChars \/ ShareUndo
    \/ ShareMoveForward \/ ShareMoveBackward \/ ShareSetMark

SpecShare == InitEd /\ [][NextShare]_vars

\* ------------------------------------------- Buffer.registry (SpecReg)
\* A name is a base and the suffixes appended to it: "x[1][2]" is
\* [base |-> "x", sfx |-> <<1, 2>>].
MaxBufs == 5       \* Buffers created (SpecReg); suffixes stay below 10

Name(base, sfx) == [base |-> base, sfx |-> sfx]

\* the names asked for
Requested ==
    {Name("x", <<>>), Name("x", <<1>>), Name("x1", <<>>), Name("x11", <<>>)}

\* name in self.registry
Registered(reg, name) == name \in DOMAIN reg

\* What '%s' % name spells as a regular expression: the base, and for each
\* suffix [n] a character class, which matches the one digit n.
RECURSIVE Digits(_)
Digits(sfx) ==
    IF sfx = <<>> THEN "" ELSE ToString(Head(sfx)) \o Digits(Tail(sfx))

Lit(name) == name.base \o Digits(name.sfx)

\* r.match(bufname) for r = '^%s(?:|\[(\d+)\])$' % name: None, or Some(the
\* group as max() reads it, 0 when the group is None)
Match(name, bufname) ==
    IF bufname.base = Lit(name) /\ bufname.sfx = <<>> THEN Some(0)
    ELSE IF bufname.base = Lit(name) /\ Len(bufname.sfx) = 1
    THEN Some(bufname.sfx[1])
    ELSE None

\* the same for a pattern made with re.escape(name)
MatchEscaped(name, bufname) ==
    IF bufname = name THEN Some(0)
    ELSE IF bufname.base = name.base /\ Len(bufname.sfx) = Len(name.sfx) + 1
            /\ SubSeq(bufname.sfx, 1, Len(name.sfx)) = name.sfx
    THEN Some(bufname.sfx[Len(bufname.sfx)])
    ELSE None

competition(reg, name) ==
    {Val(Match(name, bufname)) :
        bufname \in {b \in DOMAIN reg : ~IsNone(Match(name, b))}}

MaxOf(S) == CHOOSE n \in S : \A k \in S : k <= n

\* register without the test of the suffixed name: it is registered as it is
register_once(reg, name, self) ==
    IF ~Registered(reg, name)
    THEN [exc |-> "", name |-> name, reg |-> reg @@ (name :> self)]
    ELSE IF competition(reg, name) = {}
    THEN [exc |-> "ValueError", name |-> name, reg |-> reg]
    ELSE Let(Name(name.base,
                  Append(name.sfx, MaxOf(competition(reg, name)) + 1)),
             LAMBDA n : [exc |-> "", name |-> n,
                         reg |-> [k \in DOMAIN reg \cup {n} |->
                                      IF k = n THEN self ELSE reg[k]]])

\* Buffer.register(name) for Buffer self: [exc, name, reg]; max() of an empty
\* competition raises ValueError
RECURSIVE register(_, _, _)
register(reg, name, self) ==
    IF ~Registered(reg, name)
    THEN [exc |-> "", name |-> name, reg |-> reg @@ (name :> self)]
    ELSE IF competition(reg, name) = {}
    THEN [exc |-> "ValueError", name |-> name, reg |-> reg]
    ELSE register(reg,
                  Name(name.base,
                       Append(name.sfx, MaxOf(competition(reg, name)) + 1)),
                  self)

\* no Buffer, an empty registry
InitReg == InitEd

\* Buffer(name): Buffer.__init__; the Buffer exists when register returns
NewNamed(name) ==
    /\ Len(buffers) < MaxBufs
    /\ Let(register(registry, name, Len(buffers) + 1), LAMBDA r :
           /\ registry' = r.reg
           /\ buffers' = IF r.exc = "" THEN Append(buffers,
                                                   [name |-> r.name, requested |-> name,
                                                    held |-> TRUE])
                         ELSE buffers
           /\ hist' = [op |-> "Buffer", requested |-> name, exc |-> r.exc,
                       registry0 |-> registry])
    /\ UNCHANGED <<buf, gapstart, gapend, chunksize, marks, undolog, ed,
                   killring, peer, cache, gen, conn>>

BufferNew == \E name \in Requested : NewNamed(name)

\* the holder of a Buffer lets it go; the registry, a dict of the class,
\* keeps its entry
Release ==
    /\ \E i \in DOMAIN buffers :
          /\ buffers[i].held
          /\ buffers' = [buffers EXCEPT ![i].held = FALSE]
    /\ hist' = [op |-> "release", requested |-> Name("", <<>>), exc |-> "",
                registry0 |-> registry]
    /\ UNCHANGED <<buf, gapstart, gapend, chunksize, marks, undolog, ed,
                   killring, peer, registry, cache, gen, conn>>

NextReg == BufferNew \/ Release

SpecReg == InitReg /\ [][NextReg]_vars

\* ------------------------------------------------- Viewer.view (SpecView)
\* The session record of view carries the field cache as well.
MaxLenV == 5       \* longest text explored (SpecView)
MaxCapV == 6       \* largest array length explored (SpecView)
MaxOverV == 1      \* how far gapend is followed past the array (SpecView)
MaxUndoV == 2      \* longest undo journal explored (SpecView)
MaxLines == 7      \* lines view is followed for
ChunkV == 2        \* the chunksize the Viewer is made with (SpecView)

\* the contents the Viewer is made with: the texts of "a" and "\n" up to four
\* characters, and "ab\ncd"
AbCd == <<"a", "b", "\n", "c", "d">>

Contents ==
    UNION {[1..n -> {"a", "\n"}] : n \in 0..(MaxLenV - 1)} \cup {AbCd}

\* a cache that a mutation leaves as it is
kept(c) == c

\* Buffer.replace and Buffer.undo: self.cache = {}
invalidated(c) == <<>>

\* Viewer.extract_current_line(): [s, r], r = [start, text]
extract_current_line(s) ==
    Let(point(s, s.ed.cursor), LAMBDA p :
        IF p \in DOMAIN s.cache THEN [s |-> s, r |-> s.cache[p]]
        ELSE Let(excursion_enter(s), LAMBDA e :
             Let(beginning_of_line(e.s), LAMBDA s1 :
             Let(Viewer_move(end_of_line(s1), 1), LAMBDA s2 :
             Let([start |-> point(s1, s1.ed.cursor),
                  text |-> textrange(s2.g, point(s1, s1.ed.cursor),
                                     point(s2, s2.ed.cursor))], LAMBDA r :
                 [s |-> excursion_exit(
                            [s2 EXCEPT !.cache = (p :> r) @@ s.cache], e.sv),
                  r |-> r])))))

\* the segments view yields for the line s that starts at p, the cursor at c
Segment(tags, t) == [tags |-> tags, text |-> t]

segments(p, str, c) ==
    <<Segment("", SubSeq(str, 1, c - p)), Segment("cursor", <<>>),
      Segment("", SubSeq(str, c - p + 1, Len(str)))>>

\* Viewer.view(origin, 'forward') from its first `with` on, m the mark made
\* of origin: [s, lines, more]; lines are the pairs yielded, as [start,
\* segs]; more is set when the generator has not ended after n more lines.
\* len(self.buf) raises ValueError when size is negative.
RECURSIVE view_from(_, _, _)
view_from(s, m, n) ==
    Let(excursion_enter(s), LAMBDA e :
    Let(extract_current_line(set_point(e.s, s.ed.cursor, point(e.s, m))),
        LAMBDA x :
    Let(excursion_exit(set_point(x.s, m, point(x.s, x.s.ed.cursor)), e.sv),
        LAMBDA s3 :
    Let(point(s3, s3.ed.cursor), LAMBDA c :
    Let(x.r.start, LAMBDA p :
    Let(Len(x.r.text), LAMBDA l :
        IF n = 0 THEN [s |-> s, lines |-> <<>>, more |-> TRUE]
        ELSE IF ~(p <= c /\ c < p + l) /\ c = p + l /\ size(s3.g) < 0
        THEN [s |-> raise(s3, "ValueError"), lines |-> <<>>, more |-> FALSE]
        ELSE Let(<<[start |-> p,
                    segs |-> IF \/ p <= c /\ c < p + l
                                \/ c = p + l /\ p + l = size(s3.g)
                             THEN segments(p, x.r.text, c)
                             ELSE <<Segment("", x.r.text)>>]>>, LAMBDA line :
             IF size(s3.g) < 0
             THEN [s |-> raise(s3, "ValueError"), lines |-> line,
                   more |-> FALSE]
             ELSE IF p = size(s3.g) \/ x.r.text = <<>>
                     \/ x.r.text[l] # "\n"
             THEN [s |-> s3, lines |-> line, more |-> FALSE]
             ELSE Let(view_from(set_point(s3, m, point(s3, m) + l), m, n - 1),
                      LAMBDA v : [v EXCEPT !.lines = line \o v.lines]))))))))

\* Viewer.view(origin, 'forward'), run to its end
view(s, origin) ==
    Let(Buffer_mark(s, origin), LAMBDA s0 :
        view_from(s0, Len(s0.g.marks), MaxLines))

BoundedView(s) ==
    /\ Bounded(s.g, MaxLenV, MaxCapV, MaxOverV, MaxUndoV)
    /\ Len(s.ed.mark_ring) <= MaxRing

SessV ==
    [g |-> G, ed |-> ed, kr |-> killring, notes |-> <<>>, exc |-> "",
     cache |-> cache]

\* Viewer(content=content, chunksize=ChunkV), in an Editor
InitView ==
    /\ \E content \in Contents :
          IsG(UndoableGapBuffer_replace(
                  [NewBuffer(ChunkV, {}) EXCEPT !.marks = <<0>>],
                  WInt(0), 0, content, FALSE))
    /\ ed = [cursor |-> 1, the_mark |-> None, mark_ring |-> <<>>,
             yank_state |-> 1, undo_state |-> None, goal_column |-> None,
             writable |-> TRUE, last_command |-> "", last_key |-> ""]
    /\ killring = <<>>
    /\ peer = NoEd
    /\ registry = <<>>
    /\ buffers = <<>>
    /\ cache = <<>>
    /\ gen = NoGen
    /\ conn = NoConn
    /\ hist = [op |-> "init"]

\* the end of a step of SpecView: c is the session left, ch the cache
CommitView(op, c, ch, h) ==
    /\ BoundedView(c)
    /\ SetG(c.g)
    /\ ed' = [c.ed EXCEPT !.last_command = Recorded(op)]
    /\ cache' = ch
    /\ hist' = h
    /\ UNCHANGED <<killring, peer, registry, buffers, gen, conn>>

\* the window is redisplayed: view(0, 'forward') is run to its end
View ==
    Let(view(SessV, 0), LAMBDA v :
        CommitView("view", Collected(v.s), v.s.cache,
                   [op |-> "view", lines |-> v.lines, more |-> v.more,
                    exc |-> v.s.exc, text0 |-> text(G),
                    size0 |-> size(G),
                    cursor0 |-> point(SessV, ed.cursor),
                    ok0 |-> Intact(G)]))

Moved(s) == CommitView("move", Collected(s), cache, [op |-> "move"])

Edited(s) ==
    CommitView("edit", Collected(s), invalidated(cache), [op |-> "edit"])

ViewMoveForward == Moved(Viewer_move(SessV, 1))
ViewMoveBackward == Moved(Viewer_move(SessV, 0 - 1))
ViewInsertNewline == Edited(insert_newline(SessV))
ViewDeleteForward == Edited(delete_forward(SessV, 1))
ViewDeleteBackward == Edited(delete_backward(SessV))

NextView ==
    \/ View \/ ViewMoveForward \/ ViewMoveBackward
    \/ ViewInsertNewline \/ ViewDeleteForward \/ ViewDeleteBackward

SpecView == InitView /\ [][NextView]_vars

\* ------------------------------------------------------ claims: the Editor
\* whether the last command passed k to whine()
Whined(h, k) == \E i \in DOMAIN h.notes : h.notes[i] = k

\* the cursor's point, and the_mark's (None while no mark is set)
CursorPoint == postopoint(G, marks[ed.cursor])

MarkPoint ==
    IF IsNone(ed.the_mark) THEN None
    ELSE Some(postopoint(G, marks[Val(ed.the_mark)]))

\* C9: undo in a writable Editor whose journal is empty passes 'Nothing to
\* undo' to whine(), ends without an exception and leaves text, journal,
\* cursor and undo_state as they were; with a journal it does not whine so.
C9_EmptyUndoWhines ==
    [][(hist'.op = "undo" /\ ed.writable) =>
           IF undolog = <<>>
           THEN /\ hist'.exc = ""
                /\ Whined(hist', "Nothing to undo")
                /\ text(G)' = text(G)
                /\ undolog' = undolog
                /\ CursorPoint' = CursorPoint
                /\ ed'.undo_state = ed.undo_state
           ELSE ~Whined(hist', "Nothing to undo")]_vars

\* undo has run on an empty journal and raised TypeError
C9_EmptyUndoRaised ==
    /\ hist.op = "undo"
    /\ hist.exc = "TypeError"
    /\ undolog = <<>>
    /\ ed.writable

\* C10: while writable() is false no command changes the text or the undo
\* journal.
C10_ReadOnlyKeepsText ==
    [][~ed.writable => (text(G)' = text(G) /\ undolog' = undolog)]_vars

\* a command has had its edit rejected in a read-only Editor that has text
C10_EditRejected ==
    /\ ~ed.writable
    /\ Whined(hist, "window is readonly")
    /\ text(G) # <<>>
    /\ undolog # <<>>

\* C11: a command whose edit is rejected because writable() is false ends
\* without an exception and leaves text, cursor point, the_mark and the kill
\* ring as they were.
C11_RejectedEditKeepsState ==
    [][(~ed.writable /\ Whined(hist', "window is readonly")) =>
           /\ hist'.exc = ""
           /\ text(G)' = text(G)
           /\ CursorPoint' = CursorPoint
           /\ MarkPoint' = MarkPoint
           /\ killring' = killring]_vars

\* an insertion has been rejected in a read-only Editor and raised TypeError
C11_RejectedInsertRaised ==
    /\ ~ed.writable
    /\ Whined(hist, "window is readonly")
    /\ hist.exc = "TypeError"

\* C12: in a prompt made with prompt string S the text in [0, divider) is S
\* and the divider is Len(S), whatever commands have run.
C12_PromptKept ==
    /\ ed.divider = Len(ed.prompt)
    /\ textrange(G, 0, ed.divider) = ed.prompt

\* an undo has run in a prompt and the prompt string is gone
C12_PromptUndone ==
    /\ hist.op = "undo"
    /\ hist.exc = ""
    /\ ed.divider = Len(ed.prompt)
    /\ text(G) = <<>>

\* ------------------------------------------- claims: coordinate conversions
\* the points asked for: every point of the text, and some on either side
AskedPoints == (0 - 2)..(Len(buf) + 2)

\* C16: for every point p, postopoint(pointtopos(p)) is p clamped to
\* [0, size], and pointtopos(p) is not strictly inside the gap.
C16_ConversionsAgree ==
    \A p \in AskedPoints :
        /\ postopoint(G, pointtopos(G, p)) = Min(Max(p, 0), size(G))
        /\ ~(gapstart < pointtopos(G, p) /\ pointtopos(G, p) < gapend)

\* the same, in the states where the gap lies inside the array
C16_ConversionsAgreeIntact == Intact(G) => C16_ConversionsAgree

\* a replace has moved the gap into the middle of a text of two characters,
\* with points on both sides of it
C16_GapMoved ==
    /\ hist.op = "replace"
    /\ Intact(G)
    /\ 0 < gapstart /\ gapstart < gapend /\ gapend < Len(buf)
    /\ size(G) >= 2

\* the gap ends past the array and a point converts to a position strictly
\* inside it, which converts back to another point
C16_PointInsideGap ==
    /\ ~Intact(G)
    /\ \E p \in 0..Len(buf) :
          /\ gapstart < pointtopos(G, p) /\ pointtopos(G, p) < gapend
          /\ postopoint(G, pointtopos(G, p)) # Min(p, size(G))

\* ------------------------------------------------------- claims: motion
Deltas == {0 - 2, 0 - 1, 0, 1, 2}

Clamped(p, n) == Min(Max(p, 0), n)

\* move(delta) sets the cursor to c + delta clamped to [0, size], returns the
\* distance moved and raises nothing
MoveClamps ==
    \A delta \in Deltas :
        /\ ~Raised(Viewer_move(Sess, delta))
        /\ point(Viewer_move(Sess, delta), ed.cursor)
               = Clamped(CursorPoint + delta, size(G))
        /\ moved(Sess, delta)
               = Clamped(CursorPoint + delta, size(G)) - CursorPoint

\* C18: in every state of the Editor move(delta) clamps the cursor to
\* [0, size] and returns the distance moved, and the cursor point is within
\* [0, size].
C18_MoveStaysInBounds ==
    /\ MoveClamps
    /\ 0 <= CursorPoint /\ CursorPoint <= size(G)

\* the same, in the states where the gap lies inside the array
C18_MoveStaysInBoundsIntact == Intact(G) => C18_MoveStaysInBounds

\* a command has ended normally with the cursor past the end of the text
C18_CursorPastEnd ==
    /\ hist.op = "other"
    /\ hist.exc = ""
    /\ CursorPoint > size(G)

\* a move has been clamped at the end of a text of two characters
C18_ClampedAtEnd ==
    /\ Intact(G)
    /\ size(G) = 2
    /\ CursorPoint = 2
    /\ moved(Sess, 1) = 0
    /\ moved(Sess, 0 - 2) = 0 - 2

\* ------------------------------------------------ claims: save_excursion
\* whether session r has the cursor point, mark_ring and goal_column of the
\* current state, and the_mark set or unset as it is there
SameSession(r) ==
    /\ point(r, r.ed.cursor) = CursorPoint
    /\ IsNone(r.ed.the_mark) = IsNone(ed.the_mark)
    /\ Len(r.ed.mark_ring) = Len(ed.mark_ring)
    /\ r.ed.goal_column = ed.goal_column

\* whether the_mark of session r, when set, is at the point it has in the
\* current state
SameMarkPoint(r) ==
    IsNone(r.ed.the_mark) \/ Some(point(r, Val(r.ed.the_mark))) = MarkPoint

\* the operations that read inside one save_excursion block: isword() and
\* isword(-1)
Readers == {ispred(Sess, 0).s, ispred(Sess, 0 - 1).s}

\* C19: in every state of the Editor, a save_excursion block that ends
\* without an exception leaves cursor point, the_mark (set or unset),
\* mark_ring and goal_column as they were on entry, and when the block only
\* reads (isword) the_mark's point and the text too.
C19_ExcursionRestores ==
    /\ \A r \in Readers :
          SameSession(r) /\ SameMarkPoint(r) /\ text(r.g) = text(G)
    /\ Raised(open_line(Sess)) \/ SameSession(open_line(Sess))

\* the same, in the states where the_mark is set
C19_ExcursionRestoresSetMark == ~IsNone(ed.the_mark) => C19_ExcursionRestores

\* the_mark is set although set_mark has never run (set_mark appends to
\* mark_ring, which no command shortens): a save_excursion block has set it
C19_ExcursionSetTheMark ==
    /\ ~IsNone(ed.the_mark)
    /\ ed.mark_ring = <<>>
    /\ hist.exc = ""

\* a save_excursion block would run here with the_mark set away from the
\* cursor
C19_ExcursionWithMark ==
    /\ ~IsNone(ed.the_mark)
    /\ Intact(G)
    /\ MarkPoint # Some(CursorPoint)
    /\ ~Raised(open_line(Sess))
    /\ text(open_line(Sess).g) # text(G)

\* ------------------------------------------------------ claims: killing
\* the text the step has removed from the buffer: the deleted text of the
\* journal entry it has added
Removed == IF undolog' = undolog THEN <<>> ELSE undolog'[Len(undolog')][3]

\* whether x is the text the step has placed on the kill ring: a new entry,
\* or what it has added at either end of the last one
PlacedIs(x) ==
    IF Len(killring') > Len(killring)
    THEN killring'[Len(killring')] = x
    ELSE /\ killring # <<>>
         /\ \A i \in 1..(Len(killring) - 1) : killring'[i] = killring[i]
         /\ \/ killring'[Len(killring)] = killring[Len(killring)] \o x
            \/ killring'[Len(killring)] = x \o killring[Len(killring)]

\* what the claim asks of a step of a kill command
KillMatches ==
    /\ hist'.exc = ""
    /\ IF killring' = killring THEN Removed = <<>> ELSE PlacedIs(Removed)

\* C20: a kill command run in a writable Editor ends without an exception
\* and places on the kill ring exactly the text it removes from the buffer,
\* whatever the_mark is.
C20_KillRingGetsRemoved ==
    [][(hist'.op \in KillCommands /\ ed.writable) => KillMatches]_vars

\* the same for kill_region alone, which kills between the cursor and
\* the_mark, run while the gap lies inside the array
C20_KillRegionGetsRemoved ==
    [][(hist'.op = "kill_region" /\ ed.writable /\ Intact(G))
           => KillMatches]_vars

\* kill_to_end_of_line has removed text and placed '' on the kill ring
C20_KilledTextLost ==
    /\ hist.op = "kill_to_end_of_line"
    /\ hist.exc = ""
    /\ undolog # <<>>
    /\ undolog[Len(undolog)][3] # <<>>
    /\ killring = << <<>> >>

\* kill_region has removed text and placed it on the kill ring
C20_RegionKilled ==
    /\ hist.op = "kill_region"
    /\ hist.exc = ""
    /\ undolog # <<>>
    /\ undolog[Len(undolog)][3] # <<>>
    /\ killring = <<undolog[Len(undolog)][3]>>

\* ------------------------------------------------ claims: Buffer names
\* C14: no two Buffers have the same name, and the registry maps the name of
\* every Buffer to that Buffer.
C14_NamesUnique ==
    /\ \A i, j \in DOMAIN buffers :
          buffers[i].name = buffers[j].name => i = j
    /\ \A i \in DOMAIN buffers :
          /\ Registered(registry, buffers[i].name)
          /\ registry[buffers[i].name] = i

\* a Buffer has been made under a name that was taken, also by way of a
\* suffixed name that was taken too
C14_CollisionResolved ==
    /\ hist.op = "Buffer"
    /\ hist.exc = ""
    /\ Registered(hist.registry0, hist.requested)
    /\ Len(buffers[Len(buffers)].name.sfx) = Len(hist.requested.sfx) + 2

\* the name the rule gives a Buffer asked for as name: name itself when it is
\* free, and otherwise name[n], n one more than the largest suffix among the
\* registered names name and name[k], name counting as 0
RuleName(reg, name) ==
    IF ~Registered(reg, name) THEN name
    ELSE Name(name.base,
              Append(name.sfx,
                     1 + MaxOf({Val(MatchEscaped(name, b)) :
                                   b \in {k \in DOMAIN reg :
                                             ~IsNone(MatchEscaped(name, k))}})))

\* what the rule asks of a step that makes a Buffer
FollowsRule ==
    /\ hist'.exc = ""
    /\ Len(buffers') = Len(buffers) + 1
    /\ buffers'[Len(buffers')].name = RuleName(registry, hist'.requested)

\* C15: every Buffer(name) is made, under the name of the collision rule; so
\* Buffer("x") three times gives "x", "x[1]", "x[2]".
C15_CollisionSuffix == [][hist'.op = "Buffer" => FollowsRule]_vars

\* the same for the names asked for that have no suffix in them
C15_CollisionSuffixPlain ==
    [][(hist'.op = "Buffer" /\ hist'.requested.sfx = <<>>) => FollowsRule]_vars

\* Buffer("x") three times, the second let go before the third was made:
\* "x", "x[1]", "x[2]"
C15_ThirdIsTwo ==
    /\ Len(buffers) = 3
    /\ \A i \in 1..3 : buffers[i].requested = Name("x", <<>>)
    /\ ~buffers[2].held
    /\ hist.op = "Buffer"
    /\ <<buffers[1].name, buffers[2].name, buffers[3].name>>
           = <<Name("x", <<>>), Name("x", <<1>>), Name("x", <<2>>)>>

\* Buffer("x[1]") has raised ValueError: the name was taken
C15_SuffixedNameRaised ==
    /\ hist.op = "Buffer"
    /\ hist.exc = "ValueError"
    /\ hist.requested = Name("x", <<1>>)
    /\ Registered(registry, hist.requested)

\* ------------------------------------------- claims: shared Buffers
\* The edit a step has made, read from the journal entry it has added
\* (where, length inserted, text deleted), or from the entry it has
\* lengthened: at, ins and del.
EditAt ==
    IF Len(undolog') > Len(undolog) THEN undolog'[Len(undolog')][1]
    ELSE undolog[Len(undolog)][1] + undolog[Len(undolog)][2]

EditIns ==
    IF Len(undolog') > Len(undolog) THEN undolog'[Len(undolog')][2]
    ELSE undolog'[Len(undolog)][2] - undolog[Len(undolog)][2]

EditDel ==
    IF Len(undolog') > Len(undolog) THEN Len(undolog'[Len(undolog')][3])
    ELSE 0

\* a step in which one of two sessions has edited the Buffer, the gap lying
\* inside the array before and after it
SharedEdit ==
    /\ peer # NoEd
    /\ Intact(G) /\ Intact(G')
    /\ undolog' # undolog
    /\ hist'.exc = ""

\* the cursor of the session that made the step
Actor == IF hist'.who = "ed" THEN ed.cursor ELSE peer.cursor

\* the text is the edited text for both sessions: what was before the edit
\* and after it is kept
TextEdited ==
    /\ size(G') = size(G) - EditDel + EditIns
    /\ textrange(G', 0, EditAt) = textrange(G, 0, EditAt)
    /\ textrange(G', EditAt + EditIns, size(G'))
           = textrange(G, EditAt + EditDel, size(G))

C13_PeerCursorShifted ==
    /\ peer # NoEd
    /\ hist.op = "self_insert" /\ hist.who = "ed" /\ hist.exc = ""
    /\ Intact(G)
    /\ postopoint(G, marks[peer.cursor]) = 2
    /\ postopoint(G, marks[ed.cursor]) = 1
    /\ size(G) = 2

RECURSIVE Concat(_)
Concat(ts) == IF ts = <<>> THEN <<>> ELSE Head(ts) \o Concat(Tail(ts))

\* the text of a yielded line: its segments joined
LineText(line) ==
    Concat([i \in 1..Len(line.segs) |-> line.segs[i].text])

\* 0 and every position that follows a newline of t, in order
RECURSIVE LineStarts(_, _)
LineStarts(t, k) ==
    IF k > Len(t) THEN <<>>
    ELSE (IF t[k] = "\n" THEN <<k>> ELSE <<>>) \o LineStarts(t, k + 1)

EndsInNewline(t) == t # <<>> /\ t[Len(t)] = "\n"

\* what the claim asks of the lines that view(0, 'forward') has yielded in the
\* last step
ViewYieldsLines ==
    /\ hist.exc = ""
    /\ ~hist.more
    /\ [i \in 1..Len(hist.lines) |-> hist.lines[i].start]
           = <<0>> \o LineStarts(hist.text0, 1)
    /\ Concat([i \in 1..Len(hist.lines) |-> LineText(hist.lines[i])])
           = hist.text0
    /\ \A i \in 1..Len(hist.lines) :
          EndsInNewline(LineText(hist.lines[i])) <=> i < Len(hist.lines)
    /\ (hist.text0 = AbCd /\ hist.cursor0 = 1) =>
           hist.lines = <<[start |-> 0,
                           segs |-> <<Segment("", <<"a">>),
                                      Segment("cursor", <<>>),
                                      Segment("", <<"b", "\n">>)>>],
                          [start |-> 3,
                           segs |-> <<Segment("", <<"c", "d">>)>>]>>

\* C17: view(0, 'forward') yields one pair per line, in order: the line
\* starts are 0 and every position following a newline, the segments joined
\* are the text, every line but the last ends in a newline and the last does
\* not; over "ab\ncd" with the cursor at 1 it yields ["a", cursor, "b\n"] and
\* ["cd"].
C17_ViewYieldsLines == hist.op = "view" => ViewYieldsLines

\* the same, for a view run while the gap lies inside the array
C17_ViewYieldsLinesIntact == (hist.op = "view" /\ hist.ok0) => ViewYieldsLines

\* view has run over "ab\ncd" with the cursor at 1 and yielded two lines
C17_AbCdViewed ==
    /\ hist.op = "view"
    /\ hist.text0 = AbCd
    /\ hist.cursor0 = 1
    /\ Len(hist.lines) = 2

\* view has run after an edit over a text that ends in a newline, the last
\* line yielded being empty
C17_ViewedAfterEdit ==
    /\ hist.op = "view"
    /\ hist.ok0
    /\ Len(undolog) = 2
    /\ EndsInNewline(hist.text0)
    /\ Len(hist.lines) >= 3
    /\ LineText(hist.lines[Len(hist.lines)]) = <<>>

\* view has raised ValueError, the size of the buffer being negative
C17_ViewRaised ==
    /\ hist.op = "view"
    /\ hist.exc = "ValueError"
    /\ ~hist.ok0

\* ------------------------------------------- runs of kill commands (SpecKill)
\* An Editor made with a content, in which the cursor is moved, the mark is
\* set and the kill commands run.  Nothing is inserted, so the kill-ring
\* entries are made of the content's characters.
MaxLenK == 3       \* length of the contents (SpecKill)
MaxCapK == 4       \* largest array length explored (SpecKill)
MaxUndoK == 3      \* longest undo journal explored (SpecKill)
MaxKillK == 2      \* longest kill ring explored (SpecKill)
ChunkK == 2        \* the chunksize the Editor is made with (SpecKill)

KillContents == [1..MaxLenK -> {"a", "\n"}]

BoundedKill(s) ==
    /\ Bounded(s.g, MaxLenK, MaxCapK, 0, MaxUndoK)
    /\ Len(s.ed.mark_ring) <= MaxRing
    /\ Len(s.kr) <= MaxKillK

\* Editor(content=content, chunksize=ChunkK)
InitKill ==
    /\ \E content \in KillContents :
          IsG(UndoableGapBuffer_replace(
                  [NewBuffer(ChunkK, {}) EXCEPT !.marks = <<0>>],
                  WInt(0), 0, content, FALSE))
    /\ ed = [cursor |-> 1, the_mark |-> None, mark_ring |-> <<>>,
             yank_state |-> 1, undo_state |-> None, goal_column |-> None,
             writable |-> TRUE, last_command |-> "", last_key |-> ""]
    /\ killring = <<>>
    /\ peer = NoEd
    /\ registry = <<>>
    /\ buffers = <<>>
    /\ cache = <<>>
    /\ gen = NoGen
    /\ conn = NoConn
    /\ hist = [op |-> "init", exc |-> "", notes |-> <<>>,
               last_command |-> "", killring0 |-> <<>>]

\* Window.input_char, as in Commit; the step also notes the command that ran
\* before and the kill ring the command started with
CommitKill(name, s) ==
    Let(Collected(s), LAMBDA c :
        /\ BoundedKill(c)
        /\ SetG(c.g)
        /\ killring' = c.kr
        /\ UNCHANGED others
        /\ \E recorded \in (IF Raised(s) THEN BOOLEAN ELSE {TRUE}) :
              ed' = IF recorded
                    THEN [c.ed EXCEPT !.last_command = Recorded(name)]
                    ELSE c.ed
        /\ hist' = [op |-> Recorded(name), exc |-> s.exc, notes |-> s.notes,
                    last_command |-> ed.last_command, killring0 |-> killring])

RingMoveForward == CommitKill("move_forward", Viewer_move(Sess, 1))
RingMoveBackward == CommitKill("move_backward", Viewer_move(Sess, 0 - 1))
RingSetMark == CommitKill("set_mark", set_mark(Sess))
RingKillRegion == CommitKill("kill_region", kill_region(Sess, None, FALSE))
RingKillToEndOfLine == CommitKill("kill_to_end_of_line", kill_to_end_of_line(Sess))
RingKillWordForward == CommitKill("kill_word_forward", kill_word_forward(Sess))
RingKillWordBackward == CommitKill("kill_word_backward", kill_word_backward(Sess))

NextKill ==
    \/ RingMoveForward \/ RingMoveBackward \/ RingSetMark \/ RingKillRegion
    \/ RingKillToEndOfLine \/ RingKillWordForward \/ RingKillWordBackward

SpecKill == InitKill /\ [][NextKill]_vars

\* ------------------------------------------------- claims: the kill ring
\* the kill ring with entry x pushed
Pushed(x) == Append(killring, x)

\* the kill ring with x merged into its newest entry: appended when the text
\* was killed forward of the cursor, prepended when it was killed backward
Merged(x, forward) ==
    [killring EXCEPT ![Len(killring)] = IF forward THEN @ \o x ELSE x \o @]

\* whether new is old with text added at one end
Grown(old, new) ==
    /\ Len(new) >= Len(old)
    /\ \/ SubSeq(new, 1, Len(old)) = old
       \/ SubSeq(new, Len(new) - Len(old) + 1, Len(new)) = old

\* whether the step has killed forward of the cursor: the cursor has stayed
KilledForward == CursorPoint' = CursorPoint

\* what the claim asks of a step of a kill command
KillMerges ==
    /\ hist'.exc = ""
    /\ IF undolog' = undolog THEN killring' = killring
       ELSE IF ed.last_command \in KillCommands /\ killring # <<>>
       THEN killring' \in {Merged(Removed, KilledForward), Pushed(Removed)}
       ELSE killring' = Pushed(Removed)

\* C21: a kill command pushes the text it removes as a new kill-ring entry
\* when the command before it was not a kill, and otherwise merges it into the
\* newest entry (or pushes it), appended when it was killed forward of the
\* cursor and prepended when it was killed backward, so that the newest entry
\* is the killed text in document order.
C21_KillsMergeInOrder ==
    [][hist'.op \in KillCommands => KillMerges]_vars

\* the same for the kill commands that start with the_mark at the cursor's
\* point, the_mark being another Mark than the cursor (kill_region makes the
\* cursor the mark it was given when that mark is before the cursor)
C21_KillsMergeInOrderAtMark ==
    [][(/\ hist'.op \in KillCommands
        /\ MarkPoint = Some(CursorPoint)
        /\ ed.the_mark # Some(ed.cursor))
           => KillMerges]_vars

\* a kill command that does not raise merges into the newest entry exactly
\* when the command before it was a kill command other than kill_region run
\* by itself, and pushes otherwise
C21_MergesAfterKill ==
    [][(hist'.op \in KillCommands /\ hist'.exc = "" /\ undolog' # undolog) =>
           IF /\ ed.last_command \in KillCommands
              /\ killring # <<>>
              /\ hist'.op # "kill_region"
           THEN /\ Len(killring') = Len(killring)
                /\ \A i \in 1..(Len(killring) - 1) : killring'[i] = killring[i]
                /\ Grown(killring[Len(killring)], killring'[Len(killring)])
           ELSE /\ Len(killring') = Len(killring) + 1
                /\ SubSeq(killring', 1, Len(killring)) = killring]_vars

\* a kill has followed a kill and removed text that is not what it has merged
\* into the newest entry
C21_MergedOtherText ==
    /\ hist.op \in KillCommands
    /\ hist.last_command \in KillCommands
    /\ hist.exc = ""
    /\ hist.killring0 # <<>>
    /\ Len(killring) = Len(hist.killring0)
    /\ undolog[Len(undolog)][3] # <<>>
    /\ Let(undolog[Len(undolog)][3], LAMBDA x :
       Let(hist.killring0[Len(killring)], LAMBDA k :
           killring[Len(killring)] \notin {k \o x, x \o k}))

\* a forward kill and then a backward kill, started with the_mark at the
\* cursor, have left the whole content on the kill ring in document order
C21_MixedRunInOrder ==
    /\ hist.op = "kill_word_backward"
    /\ hist.last_command = "kill_word_forward"
    /\ hist.exc = ""
    /\ text(G) = <<>>
    /\ killring = << <<"a", "\n", "a">> >>

\* ------------------------------------------------------- claims: yanking
\* the kill-ring entry yank selects
Selected == Context_yank(Sess, ed.yank_state)

\* whether the step has inserted x at the cursor and left the cursor after it
InsertedAtCursor(x) ==
    /\ hist'.exc = ""
    /\ text(G)' = SubSeq(text(G), 1, CursorPoint) \o x
                    \o SubSeq(text(G), CursorPoint + 1, Len(text(G)))
    /\ CursorPoint' = CursorPoint + Len(x)

MaxLenT == 3       \* longest text explored (SpecType)
MaxCapT == 4       \* largest array length explored (SpecType)
MaxOverT == 2      \* how far gapend is followed past the array (SpecType)
MaxUndoT == 5      \* longest undo journal explored (SpecType)

TypedKeys == {"a", " "}

BoundedType(s) ==
    /\ Bounded(s.g, MaxLenT, MaxCapT, MaxOverT, MaxUndoT)
    /\ Len(s.ed.mark_ring) <= MaxRing

\* whether self_insert(key) continues the run of typing: the command before
\* was a self_insert and key is not a space typed after a non-space
Continues(key) ==
    /\ ed.last_command = "self_insert"
    /\ ~(~isspace(ed.last_key) /\ isspace(key))

\* Window.input_char, as in Commit; the step also notes the keys typed since
\* the last typing break (run), the text the command started with and
\* whether the gap lay inside the array then, and the same of the command
\* before (last)
CommitType(name, key, s) ==
    Let(Collected(s), LAMBDA c :
        /\ BoundedType(c)
        /\ SetG(c.g)
        /\ killring' = c.kr
        /\ UNCHANGED others
        /\ \E recorded \in (IF Raised(s) THEN BOOLEAN ELSE {TRUE}) :
              ed' = IF recorded
                    THEN [c.ed EXCEPT !.last_command = Recorded(name),
                                      !.last_key = key]
                    ELSE c.ed
        /\ hist' = [op |-> name, exc |-> s.exc, notes |-> s.notes,
                    run |-> IF name # "self_insert" \/ Raised(s) THEN <<>>
                            ELSE IF Continues(key) THEN hist.run \o <<key>>
                            ELSE <<key>>,
                    text0 |-> text(G), intact0 |-> Intact(G),
                    last |-> [op |-> hist.op, exc |-> hist.exc,
                              text0 |-> hist.text0,
                              intact0 |-> hist.intact0]])

\* Editor(chunksize=ChunkE)
InitType ==
    /\ IsG([NewBuffer(ChunkE, {}) EXCEPT !.marks = <<0>>])
    /\ ed = [cursor |-> 1, the_mark |-> None, mark_ring |-> <<>>,
             yank_state |-> 1, undo_state |-> None, goal_column |-> None,
             writable |-> TRUE, last_command |-> "", last_key |-> ""]
    /\ killring = <<>>
    /\ peer = NoEd
    /\ registry = <<>>
    /\ buffers = <<>>
    /\ cache = <<>>
    /\ gen = NoGen
    /\ conn = NoConn
    /\ hist = [op |-> "init", exc |-> "", notes |-> <<>>, run |-> <<>>,
               text0 |-> <<>>, intact0 |-> TRUE,
               last |-> [op |-> "init", exc |-> "", text0 |-> <<>>,
                         intact0 |-> TRUE]]

TypeKey == \E key \in TypedKeys : CommitType("self_insert", key, self_insert(Sess, key))
TypeUndo == CommitType("undo", "", Editor_undo(Sess))
TypeNewline == CommitType("insert_newline", "", insert_newline(Sess))
TypeMoveBackward == CommitType("move_backward", "", Viewer_move(Sess, 0 - 1))
TypeDeleteBackward == CommitType("delete_backward", "", delete_backward(Sess))
TypeDeleteForward == CommitType("delete_forward", "", delete_forward(Sess, 1))

NextType ==
    \/ TypeKey \/ TypeUndo \/ TypeNewline \/ TypeMoveBackward
    \/ TypeDeleteBackward \/ TypeDeleteForward

SpecType == InitType /\ [][NextType]_vars

\* ------------------------------------------------- claims: undo bursts
\* the newest journal entry
Newest == undolog[Len(undolog)]

\* whether the newest journal entry is an insertion that ends at the cursor
\* and holds the whole run of typing
RunInNewest ==
    /\ undolog # <<>>
    /\ Newest[3] = <<>>
    /\ Newest[1] + Newest[2] = CursorPoint
    /\ Newest[2] >= Len(hist.run)
    /\ textrange(G, CursorPoint - Len(hist.run), CursorPoint) = hist.run

\* what the claim asks of a self_insert(key) step
TypedAsBurst(key) ==
    /\ hist'.exc = ""
    /\ RunInNewest'
    /\ Continues(key) => Len(undolog') = Len(undolog)
    /\ (/\ ed.last_command = "self_insert"
        /\ ~isspace(ed.last_key)
        /\ isspace(key))
         => undolog' = Append(undolog, <<CursorPoint, 1, <<>>>>)

\* what the claim asks of an undo step that follows a run of typing: the text
\* of the newest journal entry, which holds the run, is removed
RunUndone ==
    /\ hist'.exc = ""
    /\ text(G)' = SubSeq(text(G), 1, Newest[1])
                     \o SubSeq(text(G), CursorPoint + 1, Len(text(G)))
    /\ CursorPoint' = Newest[1]

\* C23: a run of consecutive self_insert commands in which no space follows
\* a non-space is held by one undo-journal entry (each key after the first
\* extends the newest entry), a space typed right after a non-space starts a
\* new entry, and one undo command after the run removes the whole run.
C23_TypingBursts ==
    [][/\ (hist'.op = "self_insert" /\ ed.writable)
            => TypedAsBurst(ed'.last_key)
       /\ (hist'.op = "undo" /\ ed.writable /\ ed.last_command = "self_insert")
            => RunUndone]_vars

\* every self_insert appends a journal entry of its own, also one that
\* continues a run of typing
C23_EveryKeyJournaled ==
    [][(hist'.op = "self_insert" /\ ed.writable /\ Intact(G)) =>
           /\ hist'.exc = ""
           /\ undolog' = Append(undolog, <<CursorPoint, 1, <<>>>>)]_vars

\* 'a' and 'a' have been typed in a new Editor, as two journal entries, and
\* one undo has removed the second 'a' alone
C23_UndoRemovedOneKey ==
    /\ hist.op = "undo"
    /\ hist.exc = ""
    /\ text(G) = <<"a">>
    /\ undolog = <<<<0, 1, <<>>>>, <<1, 1, <<>>>>, <<1, 0, <<"a">>>>>>

\* ------------------------------------------- prompt history (SpecHist)
\* A prompt in which 'b' is typed, characters are deleted and the history is
\* walked.  Every walk adds two entries to the undo journal.
MaxLenH == 3       \* longest text explored (SpecHist)
MaxCapH == 4       \* largest array length explored (SpecHist)
MaxOverH == 1      \* how far gapend is followed past the array (SpecHist)
MaxUndoH == 10     \* longest undo journal explored (SpecHist)

\* LongPrompt.histories[history] in SpecHist
WalkedHistories == {<<>>, << <<"a">> >>, << <<"a", "b">>, <<"a">> >>}

BoundedHist(s) ==
    /\ Bounded(s.g, MaxLenH, MaxCapH, MaxOverH, MaxUndoH)
    /\ \A i \in DOMAIN s.ed.history : Len(s.ed.history[i]) <= MaxLenH - 1

\* LongPrompt(prompt=S, history=h, chunksize=ChunkE)
InitHist ==
    /\ \E S \in PromptStrings, h \in WalkedHistories :
          /\ IsG(LongPrompt(S, h).g)
          /\ ed = LongPrompt(S, h).ed
    /\ killring = <<>>
    /\ peer = NoEd
    /\ registry = <<>>
    /\ buffers = <<>>
    /\ cache = <<>>
    /\ gen = NoGen
    /\ conn = NoConn
    /\ hist = [op |-> "init", exc |-> "", notes |-> <<>>,
               uncommitted |-> <<>>, intact |-> TRUE]

\* Window.input_char, as in Commit; the step also notes the text after the
\* divider when the history was last left from position 0 (uncommitted), and
\* whether the gap has lain inside the array since then
CommitHist(name, key, s) ==
    Let(Collected(s), LAMBDA c :
        /\ BoundedHist(c)
        /\ SetG(c.g)
        /\ killring' = c.kr
        /\ UNCHANGED others
        /\ \E recorded \in (IF Raised(s) THEN BOOLEAN ELSE {TRUE}) :
              ed' = IF recorded
                    THEN [c.ed EXCEPT !.last_command = Recorded(name),
                                      !.last_key = key]
                    ELSE c.ed
        /\ hist' = [op |-> name, exc |-> s.exc, notes |-> s.notes,
                    uncommitted |-> IF ed.histptr = 0 THEN suffix(Sess)
                                    ELSE hist.uncommitted,
                    intact |-> /\ Intact(G)
                               /\ Intact(c.g)
                               /\ ed.histptr = 0 \/ hist.intact])

WalkSelfInsert == CommitHist("self_insert", "b", self_insert(Sess, "b"))
WalkDeleteBackward == CommitHist("delete_backward", "", delete_backward(Sess))
WalkDeleteForward == CommitHist("delete_forward", "", delete_forward(Sess, 1))
WalkPrevious == CommitHist("previous_history", "", previous_history(Sess))
WalkNext == CommitHist("next_history", "", next_history(Sess))

NextHist ==
    \/ WalkSelfInsert \/ WalkDeleteBackward \/ WalkDeleteForward
    \/ WalkPrevious \/ WalkNext

SpecHist == InitHist /\ [][NextHist]_vars

\* ------------------------------------------------ claims: prompt history
HistoryMoves == {"previous_history", "next_history"}

\* the history position the move of the step asks for
AskedPosition ==
    IF hist'.op = "previous_history" THEN ed.histptr + 1 ELSE ed.histptr - 1

\* what the claim asks of a step of previous_history or next_history
HistoryWalked ==
    /\ ed'.histptr = 0 => suffix(Sess)' = hist'.uncommitted
    /\ (AskedPosition < 0 \/ AskedPosition > Len(ed.history)) =>
           /\ hist'.exc = ""
           /\ G' = G
           /\ ed'.histptr = ed.histptr
           /\ ed'.history = ed.history

\* C24: a walk through the history that comes back to position 0 leaves
\* after the divider the text that was there when position 0 was left, and a
\* move that would leave the range 0..len(history) changes nothing.
C24_StashRestored ==
    [][hist'.op \in HistoryMoves => HistoryWalked]_vars

\* the same for the walks made while the gap lies inside the array
C24_StashRestoredIntact ==
    [][(hist'.op \in HistoryMoves /\ hist'.intact) => HistoryWalked]_vars

\* 'b' was typed, the two history entries were recalled one after the other
\* and next_history has brought 'b' back
C24_Restored ==
    /\ hist.op = "next_history"
    /\ hist.exc = ""
    /\ ed.histptr = 0
    /\ Len(ed.history) = 2
    /\ \E i \in DOMAIN undolog : undolog[i][3] = <<"a", "b">>
    /\ hist.uncommitted = <<"b">>
    /\ suffix(Sess) = <<"b">>

\* after delete_forward at the end of an empty prompt, a recall and
\* next_history have left the recalled text after the divider
C24_RecalledTextLeft ==
    /\ hist.op = "next_history"
    /\ hist.exc = ""
    /\ ed.histptr = 0
    /\ hist.uncommitted = <<>>
    /\ suffix(Sess) = <<"a">>
    /\ ed.history = << <<>> >>

\* ------------------------------------------- the buffer cache (SpecCache)
\* A Viewer in an Editor whose lines are read, at the cursor and by view,
\* between motions, edits and undos.
MaxLenC == 3       \* longest text explored (SpecCache)
MaxCapC == 4       \* largest array length explored (SpecCache)
MaxOverC == 1      \* how far gapend is followed past the array (SpecCache)
MaxUndoC == 3      \* longest undo journal explored (SpecCache)

CachedContents == UNION {[1..n -> {"a", "\n"}] : n \in 0..(MaxLenC - 1)}

BoundedCache(s) ==
    /\ Bounded(s.g, MaxLenC, MaxCapC, MaxOverC, MaxUndoC)
    /\ Len(s.ed.mark_ring) <= MaxRing

\* Viewer(content=content, chunksize=ChunkV), in an Editor
InitCache ==
    /\ \E content \in CachedContents :
          IsG(UndoableGapBuffer_replace(
                  [NewBuffer(ChunkV, {}) EXCEPT !.marks = <<0>>],
                  WInt(0), 0, content, FALSE))
    /\ ed = [cursor |-> 1, the_mark |-> None, mark_ring |-> <<>>,
             yank_state |-> 1, undo_state |-> None, goal_column |-> None,
             writable |-> TRUE, last_command |-> "", last_key |-> ""]
    /\ killring = <<>>
    /\ peer = NoEd
    /\ registry = <<>>
    /\ buffers = <<>>
    /\ cache = <<>>
    /\ gen = NoGen
    /\ conn = NoConn
    /\ hist = [op |-> "init", exc |-> ""]

\* the end of a step of SpecCache: s is the session left, ch the cache
CommitCache(op, s, ch) ==
    Let(Collected(s), LAMBDA c :
        /\ BoundedCache(c)
        /\ SetG(c.g)
        /\ ed' = [c.ed EXCEPT !.last_command = Recorded(op)]
        /\ cache' = ch
        /\ hist' = [op |-> op, exc |-> s.exc]
        /\ UNCHANGED <<killring, peer, registry, buffers, gen, conn>>)

\* a command that calls Buffer.replace or Buffer.undo
Mutated(op, s) == CommitCache(op, s, invalidated(cache))

CacheReadLine ==
    Let(extract_current_line(SessV).s, LAMBDA s :
        CommitCache("extract_current_line", s, s.cache))
CacheView ==
    Let(view(SessV, 0).s, LAMBDA s : CommitCache("view", s, s.cache))
CacheMoveForward == CommitCache("move_forward", Viewer_move(SessV, 1), cache)
CacheMoveBackward == CommitCache("move_backward", Viewer_move(SessV, 0 - 1), cache)
CacheInsertNewline == Mutated("insert_newline", insert_newline(SessV))
CacheDeleteForward == Mutated("delete_forward", delete_forward(SessV, 1))
CacheDeleteBackward == Mutated("delete_backward", delete_backward(SessV))
CacheUndo == Mutated("undo", Editor_undo(SessV))

NextCache ==
    \/ CacheReadLine \/ CacheView \/ CacheMoveForward \/ CacheMoveBackward
    \/ CacheInsertNewline \/ CacheDeleteForward \/ CacheDeleteBackward
    \/ CacheUndo

SpecCache == InitCache /\ [][NextCache]_vars

\* ------------------------------------------------ claims: the buffer cache
\* what extract_current_line computes at point p with an empty cache
Recomputed(p) ==
    extract_current_line(
        [set_point(SessV, ed.cursor, p) EXCEPT !.cache = <<>>]).r

\* C25: every entry of the buffer cache, memoized by extract_current_line
\* for a cursor point, is the line start and line text that
\* extract_current_line would compute at that point from the current text.
C25_CacheFresh ==
    \A p \in DOMAIN cache : cache[p] = Recomputed(p)

\* lines have been memoized again after an edit and an undo
C25_CachedAfterUndo ==
    /\ hist.op \in {"view", "extract_current_line"}
    /\ hist.exc = ""
    /\ Len(undolog) = 3
    /\ undolog[2][2] = 1
    /\ undolog[3][3] = <<"\n">>
    /\ Cardinality(DOMAIN cache) >= 2

\* ------------------------------------------------- claims: Editor.undo
\* the commands that edit in SpecType
EditOps == {"self_insert", "insert_newline", "delete_backward", "delete_forward"}

\* whether an undo has just run right after an edit
UndoAfterEdit ==
    /\ hist.op = "undo"
    /\ hist.last.op \in EditOps
    /\ hist.last.exc = ""

\* what the claim asks of the state after such an undo: the text is what it
\* was before the edit, the journal has the undo's own entry after the
\* edit's, the token is the slot before the edit's, and the cursor is at the
\* end of what the undo has put back
EditReverted ==
    /\ hist.exc = ""
    /\ text(G) = hist.last.text0
    /\ ed.undo_state = Some((Len(undolog) - 3) % Len(undolog))
    /\ CursorPoint = Newest[1] + Newest[2]

\* C26: an undo run right after an edit reverts that edit, whatever token
\* earlier undos have left: text() is what it was before the edit, the
\* cursor is at the point undo returned and the token is the one undo
\* returned for the edit's journal entry.
C26_UndoRevertsEdit == UndoAfterEdit => EditReverted

\* C26 for the edits made while the gap ended inside the array
C26_UndoRevertsEditIntact ==
    (UndoAfterEdit /\ hist.last.intact0) => EditReverted

\* two delete_forward at the end of "a" left the gap ending past the array;
\* 'a' was then typed at the start and undo has left the empty text
C26_TextNotRestored ==
    /\ UndoAfterEdit
    /\ hist.exc = ""
    /\ hist.last.op = "self_insert"
    /\ ~hist.last.intact0
    /\ hist.last.text0 = <<"a">>
    /\ text(G) = <<>>

\* 'a' was typed and undone, which left a token; then 'a' was typed again
\* and undo has removed it
C26_TokenLeftBehind ==
    /\ UndoAfterEdit
    /\ hist.exc = ""
    /\ text(G) = <<>>
    /\ undolog = <<<<0, 1, <<>>>>, <<0, 0, <<"a">>>>, <<0, 1, <<>>>>,
                   <<0, 0, <<"a">>>>>>
    /\ ed.undo_state = Some(1)

\* ------------------------------------------------ claims: growing the gap
MaxExtra == 5      \* largest size movegap is asked for

\* the sizes movegap is tried with in a state
Extras == 0..MaxExtra

\* the smallest multiple of c that is >= d, and the smallest that is > d
MultipleAtLeast(d, c) ==
    CHOOSE m \in 0..(d + c) :
        /\ m % c = 0 /\ m >= d
        /\ \A k \in 0..(m - 1) : ~(k % c = 0 /\ k >= d)

MultipleAbove(d, c) ==
    CHOOSE m \in 0..(d + c) :
        /\ m % c = 0 /\ m > d
        /\ \A k \in 0..(m - 1) : ~(k % c = 0 /\ k > d)

\* whether the growing step of movegap(pos, extra) makes the array longer by
\* inc, the new slots being in the gap: the gap starts where it did and what
\* is before and after it is what it was
GrowsBy(extra, inc) ==
    Let(grow(G, extra), LAMBDA g :
        /\ Len(g.buf) = Len(buf) + inc
        /\ g.gapstart = gapstart
        /\ g.gapend = gapend + inc
        /\ Slice(g.buf, 0, g.gapstart) = Slice(buf, 0, gapstart)
        /\ Slice(g.buf, g.gapend, Len(g.buf)) = Slice(buf, gapend, Len(buf)))

\* C27 as stated: when movegap is asked for more than the gap length, the
\* array and the gap grow by the smallest multiple of chunksize that is >=
\* the shortfall.
C27_GrowsByMultipleAtLeast ==
    \A extra \in Extras :
        extra > gaplength(G) =>
            GrowsBy(extra, MultipleAtLeast(extra - gaplength(G), chunksize))

\* C27 as amended: they grow by the smallest multiple of chunksize that is
\* greater than the shortfall, and not at all when the gap is long enough.
C27_GrowsByMultipleAbove ==
    \A extra \in Extras :
        IF extra > gaplength(G)
        THEN GrowsBy(extra, MultipleAbove(extra - gaplength(G), chunksize))
        ELSE GrowsBy(extra, 0)

\* "ab" has been inserted into a new buffer of chunksize 1, a shortfall of
\* one slot, and the array has grown from one slot to three
C27_GrewByTwo ==
    /\ hist.op = "replace"
    /\ hist.text0 = <<>>
    /\ hist.string = <<"a", "b">>
    /\ chunksize = 1
    /\ Len(buf) = 3
    /\ gapstart = 2 /\ gapend = 3

\* ---------------------------------------------------- claims: textrange
\* the substring of text() from begin to end, both clamped to [0, size]
Substring(begin, end) ==
    SubSeq(text(G), Clamped(begin, size(G)) + 1, Clamped(end, size(G)))

\* C28: for all begin and end, textrange(begin, end) is the substring of
\* text() from begin to end, both clamped to [0, size]; it is empty when
\* begin >= end.
C28_TextrangeClips ==
    \A begin \in AskedPoints, end \in AskedPoints :
        /\ textrange(G, begin, end) = Substring(begin, end)
        /\ begin >= end => textrange(G, begin, end) = <<>>

\* the same, in the states where the gap lies inside the array
C28_TextrangeClipsIntact == Intact(G) => C28_TextrangeClips

\* the gap is in the middle of a text of three characters, so that a range
\* can lie before it, after it and across it
C28_GapInsideText ==
    /\ hist.op = "replace"
    /\ Intact(G)
    /\ size(G) = 3
    /\ 0 < gapstart /\ gapstart < gapend /\ gapend < Len(buf)
    /\ textrange(G, 0, 3) = text(G)
    /\ textrange(G, gapstart, 3) # <<>>

\* the gap ends past the array, size is 0 and textrange(0, 1) returns a
\* character
C28_BeyondSize ==
    /\ hist.op = "replace"
    /\ ~Intact(G)
    /\ size(G) = 0
    /\ textrange(G, 0, 1) = <<"a">>

\* ------------------------------------------------------------------ C29
\* the extras movegap is asked for; replace passes len(string) - size, which
\* is negative for a deletion
MoveExtras == (0 - 2)..MaxExtra

\* the array positions movegap is asked to move the gap to
MovePositions == 0..Len(buf)

\* the text and the point of every mark read the same in g2 as now
FrameKept(g2) ==
    /\ text(g2) = text(G)
    /\ points(g2) = points(G)

\* in g2 the gap starts at the point that pos stands for now and is at least
\* extra long
GapPlaced(g2, pos, extra) ==
    /\ g2.gapstart = postopoint(G, pos)
    /\ gaplength(g2) >= extra

\* C29: movegap(pos, extra) changes neither text() nor the point of any mark,
\* for every position and every extra, also when it grows the array; after
\* it the gap starts at the target point and is at least extra long.
C29_MovegapFrame ==
    \A pos \in MovePositions, extra \in MoveExtras :
        Let(movegap(G, pos, extra), LAMBDA g2 :
            FrameKept(g2) /\ GapPlaced(g2, pos, extra))

\* C29 in the states where the gap ends inside the array
C29_MovegapFrameIntact == Intact(G) => C29_MovegapFrame

\* a mark stands before the gap and a movegap to the front that asks for
\* more than the gap holds grows the array and moves the gap over the mark
C29_GrownAndMoved ==
    /\ hist.op = "replace"
    /\ Intact(G)
    /\ gapstart >= 2
    /\ Len(text(G)) > gapstart
    /\ \E m \in DOMAIN marks : points(G)[m] = 1
    /\ Let(movegap(G, 0, gaplength(G) + 1), LAMBDA g2 :
           /\ Len(g2.buf) > Len(buf)
           /\ g2.gapstart = 0
           /\ g2.marks # marks
           /\ FrameKept(g2))

\* the gap ends past the array, the text is "a" and a movegap to the front
\* that asks for nothing leaves the empty text
C29_TextLost ==
    /\ hist.op = "replace"
    /\ ~Intact(G)
    /\ text(G) = <<"a">>
    /\ text(movegap(G, 0, 0)) = <<>>

\* ------------------------------- runs of undos over the journal (SpecJournal)
\* An empty UndoableGapBuffer is edited with replace and undone with undo.
\* Every undo that follows an undo passes on the token the last one returned;
\* the first undo after an edit passes None.  hist keeps the text before every
\* journal entry and, for the run of undos in progress, the journal length and
\* those texts as they were when the run began, whether every edit so far
\* made a journal entry of its own, and whether the gap always ended inside
\* the array.
MaxLenJ == 2       \* longest text explored (SpecJournal)
MaxCapJ == 3       \* largest array length explored (SpecJournal)
MaxOverJ == 2      \* how far gapend is followed past the array (SpecJournal)
MaxEditsJ == 3     \* journal entries made by edits (SpecJournal)
MaxUndoJ == 7      \* longest undo journal explored (SpecJournal)

BoundedJournal(g) == Bounded(g, MaxLenJ, MaxCapJ, MaxOverJ, MaxUndoJ)

InitJournal ==
    /\ \E cs \in 1..MaxChunk : IsG(NewBuffer(cs, {}))
    /\ ed = NoEd
    /\ killring = <<>>
    /\ peer = NoEd
    /\ registry = <<>>
    /\ buffers = <<>>
    /\ cache = <<>>
    /\ gen = NoGen
    /\ conn = NoConn
    /\ hist = [op |-> "init", texts |-> << <<>> >>, n |-> 0, k |-> 0,
               texts0 |-> << <<>> >>, slot |-> 0, token |-> None,
               separate |-> TRUE, intact |-> TRUE]

\* the texts before every journal entry of g2 and the text of g2, given those
\* of the buffer g before the replace
TextsAfter(texts, g, g2) ==
    IF Len(g2.undolog) = Len(g.undolog)
    THEN [texts EXCEPT ![Len(texts)] = text(g2)]
    ELSE Append(texts, text(g2))

\* UndoableGapBuffer.replace(where, size, string, collapsible), where a point
JournalEdit ==
    \E p \in 0..(Len(text(G)) + 1), sz \in 0..MaxDel, string \in StringsU,
       coll \in BOOLEAN :
        LET g2 == UndoableGapBuffer_replace(G, WInt(p), sz, string, coll)
        IN  /\ Len(undolog) < MaxEditsJ
            /\ BoundedJournal(g2)
            /\ SetG(g2)
            /\ hist' = [op |-> "replace",
                        texts |-> TextsAfter(hist.texts, G, g2),
                        n |-> 0, k |-> 0, texts0 |-> << <<>> >>, slot |-> 0,
                        token |-> None,
                        separate |-> hist.separate
                                     /\ ~collapses(G, WInt(p), string, coll),
                        intact |-> hist.intact /\ Intact(g2)]
            /\ UNCHANGED <<ed, killring, others>>

\* UndoableGapBuffer.undo(which) with the token of the undo before it, or
\* None after an edit
JournalUndo ==
    IF undolog = <<>>
    THEN /\ hist' = [hist EXCEPT !.op = "undo", !.token = None]
         /\ UNCHANGED <<buf, gapstart, gapend, chunksize, marks, undolog,
                        ed, killring, others>>
    ELSE LET g2 == undo_buf(G, hist.token)
         IN  /\ BoundedJournal(g2)
             /\ SetG(g2)
             /\ hist' = [op |-> "undo",
                         texts |-> TextsAfter(hist.texts, G, g2),
                         n |-> IF hist.k = 0 THEN Len(undolog) ELSE hist.n,
                         k |-> hist.k + 1,
                         texts0 |-> IF hist.k = 0 THEN hist.texts
                                    ELSE hist.texts0,
                         slot |-> undo_off(G, hist.token),
                         token |-> Some(undo_ret(G, hist.token)[1]),
                         separate |-> hist.separate,
                         intact |-> hist.intact /\ Intact(g2)]
             /\ UNCHANGED <<ed, killring, others>>

NextJournal == JournalEdit \/ JournalUndo

SpecJournal == InitJournal /\ [][NextJournal]_vars

\* ------------------------------------------------------------------ C30
\* the k-th undo of a run that began with n journal entries undid slot n - k,
\* left the text from before that entry and returned the slot before it,
\* modulo the journal length
RunLeaves ==
    (hist.op = "undo" /\ hist.separate /\ hist.k \in 1..hist.n)
        => /\ hist.slot = hist.n - hist.k
           /\ text(G) = hist.texts0[hist.n - hist.k + 1]
           /\ hist.token = Some((hist.slot - 1) % Len(undolog))

\* the undo after the one of slot 0 undid the newest entry of the journal
\* and left the text from after the first entry
RunWraps ==
    (hist.op = "undo" /\ hist.separate /\ hist.k = hist.n + 1 /\ hist.n >= 1)
        => /\ hist.slot = Len(undolog) - 2
           /\ text(G) = hist.texts0[2]

\* C30: after n separately journaled edits with texts T0..Tn, k undos in a
\* row (1 <= k <= n), each passing on the token of the one before, leave the
\* text T(n-k) and return the token (slot undone - 1) mod journal length;
\* the undo after the one of slot 0 undoes the newest journal entry and
\* leaves the text T1.
C30_UndoWalksRing == RunLeaves /\ RunWraps

\* C30 in the runs where the gap never ended past the array
C30_UndoWalksRingIntact == hist.intact => C30_UndoWalksRing

\* two edits were undone one after the other, both slots of the journal, and
\* the second undo returned the token of the newest entry
C30_WalkedToOldest ==
    /\ hist.op = "undo"
    /\ hist.separate
    /\ hist.intact
    /\ hist.n = 2
    /\ hist.k = 2
    /\ hist.slot = 0
    /\ hist.token = Some(3)
    /\ hist.texts0 = << <<>>, <<"a">>, <<"a", "b">> >>
    /\ text(G) = <<>>

\* the third undo of that run undid the newest entry and brought back "a"
C30_Wrapped ==
    /\ hist.op = "undo"
    /\ hist.separate
    /\ hist.intact
    /\ hist.n = 2
    /\ hist.k = 3
    /\ hist.slot = 3
    /\ hist.texts0 = << <<>>, <<"a">>, <<"a", "b">> >>
    /\ text(G) = <<"a">>

\* an edit left the gap ending past the array, the next edit, which asked
\* for no change, lost the text "a", and the undo of that edit did not bring
\* it back
C30_TextNotBack ==
    /\ hist.op = "undo"
    /\ hist.separate
    /\ ~hist.intact
    /\ hist.n = 2
    /\ hist.k = 1
    /\ hist.slot = 1
    /\ hist.texts0 = << <<>>, <<"a">>, <<>> >>
    /\ text(G) = <<>>

\* ------------------------------------- motion over lines (SpecLines)
\* A Viewer over a text of several lines; the motion commands are run on it
\* and nothing edits the text.
MaxLenL == 2       \* every text of at most this length is explored (SpecLines)
MaxStairL == 7     \* longest text explored (SpecLines)
MaxCapL == 8       \* largest array length explored (SpecLines)
MaxRingL == 1      \* longest mark_ring explored (SpecLines)

\* "a", an empty line, "a"; and "aa", "a", "aa"
Stairs == {<<"a", "\n", "\n", "a">>,
           <<"a", "a", "\n", "a", "\n", "a", "a">>}

LineContents ==
    UNION {[1..n -> {"a", "\n"}] : n \in 0..MaxLenL} \cup Stairs

\* the column line_move starts from: self.goal_column, or the distance of
\* the cursor from the beginning of its line, measured in a save_excursion
goal_of(s) ==
    IF ~IsNone(s.ed.goal_column) THEN [s |-> s, r |-> Val(s.ed.goal_column)]
    ELSE Let(excursion_enter(s), LAMBDA e :
         Let(beginning_of_line(e.s), LAMBDA s1 :
             [s |-> excursion_exit(s1, e.sv),
              r |-> point(e.s, e.s.ed.cursor) - point(s1, s1.ed.cursor)]))

\* one turn of the loop of line_move
line_step(s, delta) ==
    IF delta < 0
    THEN beginning_of_line(Viewer_move(beginning_of_line(s), 0 - 1))
    ELSE IF delta > 0
    THEN Let(end_of_line(s), LAMBDA s1 :
             IF moved(s1, 1) = 0 THEN beginning_of_line(Viewer_move(s1, 1))
             ELSE Viewer_move(s1, 1))
    ELSE s

RECURSIVE line_steps(_, _, _)
line_steps(s, delta, count) ==
    IF count = 0 THEN s ELSE line_steps(line_step(s, delta), delta, count - 1)

\* the distance from the cursor to the end of its line, measured in a
\* save_excursion
line_length(s) ==
    Let(excursion_enter(s), LAMBDA e :
    Let(end_of_line(e.s), LAMBDA s1 :
        [s |-> excursion_exit(s1, e.sv),
         r |-> point(s1, s1.ed.cursor) - point(e.s, e.s.ed.cursor)]))

\* Viewer.line_move(delta) (track_column=True)
line_move(s, delta) ==
    Let(goal_of(s), LAMBDA gc :
    Let(line_length(line_steps(gc.s, delta, Abs(delta))), LAMBDA ll :
        [Viewer_move(ll.s, Min(gc.r, ll.r))
            EXCEPT !.ed.goal_column = Some(gc.r)]))

\* Viewer.set_mark(where) (prefix=None)
set_mark_at(s, where) ==
    Let(Buffer_mark(s, where), LAMBDA s1 :
        [s1 EXCEPT !.ed.mark_ring = Append(s.ed.mark_ring, s.ed.the_mark),
                   !.ed.the_mark = Some(Len(s1.g.marks))])

\* Viewer.beginning_of_buffer(pct) with no argument (pct is None)
beginning_of_buffer(s) ==
    Let(beginning_of_line(set_point(s, s.ed.cursor, Min(0, len(s)))),
        LAMBDA s1 :
        IF point(s, s.ed.cursor) # point(s1, s1.ed.cursor)
        THEN set_mark_at(s1, point(s, s.ed.cursor)) ELSE s1)

\* Viewer.end_of_buffer() with no argument
end_of_buffer(s) ==
    Let(set_point(s, s.ed.cursor, Max((10 * len(s)) \div 10, 0)), LAMBDA s1 :
        IF point(s, s.ed.cursor) # point(s1, s1.ed.cursor)
        THEN set_mark_at(s1, point(s, s.ed.cursor)) ELSE s1)

\* the point where the line of point p begins in the text t, the point of
\* its end (of its EOL, or the end of t), and its number
LineStart(t, p) ==
    Max(0, CHOOSE q \in 0..p :
               /\ (q = 0 \/ t[q] = "\n")
               /\ \A r \in (q + 1)..p : t[r] # "\n")

LineEnd(t, p) ==
    CHOOSE q \in p..Len(t) :
        /\ (q = Len(t) \/ t[q + 1] = "\n")
        /\ \A r \in (p + 1)..q : t[r] # "\n"

LineNo(t, p) == Cardinality({q \in 1..p : t[q] = "\n"})

Column(t, p) == p - LineStart(t, p)

Vertical == {"line_next", "line_previous"}

BoundedLines(s) ==
    /\ Bounded(s.g, MaxStairL, MaxCapL, 0, 1)
    /\ Len(s.ed.mark_ring) <= MaxRingL

\* Viewer(content=content, chunksize=ChunkV), in an Editor, the cursor put
\* anywhere by move_forward
InitLines ==
    /\ \E content \in LineContents :
          IsG(UndoableGapBuffer_replace(
                  [NewBuffer(ChunkV, {}) EXCEPT !.marks = <<0>>],
                  WInt(0), 0, content, FALSE))
    /\ ed = [cursor |-> 1, the_mark |-> None, mark_ring |-> <<>>,
             yank_state |-> 1, undo_state |-> None, goal_column |-> None,
             writable |-> TRUE, last_command |-> "", last_key |-> ""]
    /\ killring = <<>>
    /\ peer = NoEd
    /\ registry = <<>>
    /\ buffers = <<>>
    /\ cache = <<>>
    /\ gen = NoGen
    /\ conn = NoConn
    /\ hist = [op |-> "init", exc |-> "", g |-> 0, fresh |-> TRUE,
               point0 |-> 0, goal0 |-> None]

\* the end of a step of SpecLines.  hist keeps the command, the cursor point
\* and goal_column it started from and, for a vertical motion, the column
\* the run of vertical motions it belongs to began at and whether that run
\* began with goal_column unset
CommitLines(name, s) ==
    Let(Collected(s), LAMBDA c :
        /\ BoundedLines(c)
        /\ SetG(c.g)
        /\ ed' = [c.ed EXCEPT !.last_command = Recorded(name)]
        /\ hist' = [op |-> name, exc |-> s.exc,
                    g |-> IF name \in Vertical /\ hist.op \in Vertical
                          THEN hist.g
                          ELSE Column(text(G), CursorPoint),
                    fresh |-> IF name \in Vertical /\ hist.op \in Vertical
                              THEN hist.fresh
                              ELSE IsNone(ed.goal_column),
                    point0 |-> CursorPoint,
                    goal0 |-> ed.goal_column]
        /\ UNCHANGED <<killring, others>>)

LineNext == CommitLines("line_next", line_move(Sess, 1))
LinePrevious == CommitLines("line_previous", line_move(Sess, 0 - 1))
LinesMoveForward == CommitLines("move_forward", Viewer_move(Sess, 1))
LinesMoveBackward == CommitLines("move_backward", Viewer_move(Sess, 0 - 1))
LinesBeginningOfLine == CommitLines("beginning_of_line", beginning_of_line(Sess))
LinesEndOfLine == CommitLines("end_of_line", end_of_line(Sess))
LinesWordForward == CommitLines("word_forward", word_forward(Sess))
LinesWordBackward == CommitLines("word_backward", word_backward(Sess))
LinesBeginningOfBuffer ==
    CommitLines("beginning_of_buffer", beginning_of_buffer(Sess))
LinesEndOfBuffer == CommitLines("end_of_buffer", end_of_buffer(Sess))
\* exchange_point_and_mark with the_mark set, as every save_excursion leaves
\* it; with the_mark unset it leaves the session without a cursor and no
\* command can follow
LinesExchange ==
    /\ ~IsNone(ed.the_mark)
    /\ CommitLines("exchange_point_and_mark", exchange_point_and_mark(Sess))

NextLines ==
    \/ LineNext \/ LinePrevious \/ LinesMoveForward \/ LinesMoveBackward
    \/ LinesBeginningOfLine \/ LinesEndOfLine \/ LinesWordForward
    \/ LinesWordBackward \/ LinesBeginningOfBuffer \/ LinesEndOfBuffer
    \/ LinesExchange

SpecLines == InitLines /\ [][NextLines]_vars

\* ------------------------------------------------------------------ C31
Stair2 == <<"a", "a", "\n", "a", "\n", "a", "a">>

\* the number of the last line of the text t
LastLine(t) == LineNo(t, Len(t))

\* the length of the line of point p, its EOL not counted
LineLength(t, p) == LineEnd(t, p) - LineStart(t, p)

AfterVertical == hist.op \in Vertical /\ hist.exc = ""

\* the cursor is on the line next to the one it was on, in the direction of
\* the command, or on the same line when that was the first or the last,
\* and at the column the run began at or the end of the line
OnAdjacentLineAtGoal ==
    /\ LineNo(text(G), CursorPoint) =
           Clamped(LineNo(text(G), hist.point0)
                       + (IF hist.op = "line_next" THEN 1 ELSE 0 - 1),
                   LastLine(text(G)))
    /\ Column(text(G), CursorPoint) =
           Min(hist.g, LineLength(text(G), CursorPoint))

\* C31: in a run of line_next and line_previous commands that began at column
\* g, after each command the cursor is on the adjacent line (or stays on the
\* first or last line) at column min(g, length of that line).
C31_GoalSticky == AfterVertical => OnAdjacentLineAtGoal

\* C31 for the runs that began with goal_column unset
C31_GoalStickyFresh == (AfterVertical /\ hist.fresh) => OnAdjacentLineAtGoal

\* from column 2 of "aa" the cursor went down to the end of "a" and a second
\* line_next has put it at column 2 of the last line
C31_BackAtColumn ==
    /\ text(G) = Stair2
    /\ hist.op = "line_next"
    /\ hist.fresh
    /\ hist.g = 2
    /\ hist.point0 = 4
    /\ CursorPoint = 7
    /\ ed.goal_column = Some(2)

\* a run of vertical motions began at column 0 with goal_column still 2,
\* and its first line_next has put the cursor at column 1 of "a"
C31_StaleColumn ==
    /\ text(G) = Stair2
    /\ hist.op = "line_next"
    /\ ~hist.fresh
    /\ hist.g = 0
    /\ hist.point0 = 0
    /\ hist.goal0 = Some(2)
    /\ CursorPoint = 4

\* ------------------------------------------------------------------ C32
NonVertical ==
    {"move_forward", "move_backward", "beginning_of_line", "end_of_line",
     "word_forward", "word_backward", "beginning_of_buffer", "end_of_buffer",
     "exchange_point_and_mark"}

\* the commands that always go through Viewer.move
AlwaysMove == {"move_forward", "move_backward", "word_forward",
               "word_backward"}

\* C32: after each of the nine motions that are not vertical, from any state,
\* goal_column is unset.
C32_MotionClearsGoal == hist.op \in NonVertical => IsNone(ed.goal_column)

\* C32 for the four commands that always call move; after the other five
\* goal_column is unset or what it was
C32_MoveClearsGoal ==
    /\ hist.op \in AlwaysMove => IsNone(ed.goal_column)
    /\ hist.op \in NonVertical =>
           (IsNone(ed.goal_column) \/ ed.goal_column = hist.goal0)

\* exchange_point_and_mark has put the cursor at column 0 and goal_column is
\* still 2
C32_GoalKept ==
    /\ text(G) = Stair2
    /\ hist.op = "exchange_point_and_mark"
    /\ CursorPoint = 0
    /\ ed.goal_column = Some(2)

\* end_of_line at the end of a line, and beginning_of_buffer, have left
\* goal_column set
C32_GoalKeptAtEnd ==
    /\ text(G) = Stair2
    /\ hist.op = "end_of_line"
    /\ hist.point0 = 4
    /\ CursorPoint = 4
    /\ ed.goal_column = Some(2)

\* ---------------------------------- the generator of Viewer.view (SpecGen)
\* view is a generator function: a call of it makes a generator object and
\* runs nothing of its body; the body runs, up to the next yield, each time
\* the caller asks the generator for its next item.  gen is the generator:
\*   state      "created" (not started), "suspended" (at a yield) or "closed"
\*   direction, origin   the arguments of the call
\*   m          the mark made of origin (while suspended)
\*   p, line    the start and the text of the line last yielded
\*   n          the calls of view made so far
MaxViews == 2      \* calls of view explored (SpecGen)

Directions == {"forward", "backward", "sideways"}

ValidDirections == {"forward", "backward"}

\* the marks still referred to once the body has stopped: those of the
\* Viewer, and the generator's m while it is suspended
CollectedWith(s, m) ==
    Let(Collected([s EXCEPT !.ed.mark_ring = Append(@, Some(m))]), LAMBDA c :
        [s |-> [c EXCEPT !.ed.mark_ring = SubSeq(@, 1, Len(@) - 1)],
         m |-> Val(c.ed.mark_ring[Len(c.ed.mark_ring)])])

\* the body of view from `while True' to the yield, m the generator's mark:
\* the session, the generator and the pair yielded
view_yield(s, g, m) ==
    Let(excursion_enter(s), LAMBDA e :
    Let(extract_current_line(set_point(e.s, s.ed.cursor, point(e.s, m))),
        LAMBDA x :
    Let(excursion_exit(set_point(x.s, m, point(x.s, x.s.ed.cursor)), e.sv),
        LAMBDA s3 :
    Let(point(s3, s3.ed.cursor), LAMBDA c :
    Let(x.r.start, LAMBDA p :
    Let(Len(x.r.text), LAMBDA l :
    Let(CollectedWith(s3, m), LAMBDA k :
        [s |-> k.s,
         gen |-> [state |-> "suspended", direction |-> g.direction,
                  origin |-> g.origin, n |-> g.n, m |-> k.m, p |-> p,
                  line |-> x.r.text],
         yielded |-> <<[start |-> p,
                        segs |-> IF \/ p <= c /\ c < p + l
                                    \/ c = p + l /\ p + l = size(s3.g)
                                 THEN segments(p, x.r.text, c)
                                 ELSE <<Segment("", x.r.text)>>]>>])))))))

\* the generator has ended or raised: its frame and its mark are dropped
view_closed(s, g, e) ==
    [s |-> Collected(raise(s, e)),
     gen |-> [state |-> "closed", direction |-> g.direction,
              origin |-> g.origin, n |-> g.n],
     yielded |-> <<>>]

\* the body of view from its first line to the first yield
view_start(s, g) ==
    Let(Buffer_mark(s, g.origin), LAMBDA s0 :
        IF g.direction \notin ValidDirections
        THEN view_closed(s0, g, "ValueError")
        ELSE view_yield(s0, g, Len(s0.g.marks)))

\* the body of view from a yield to the next one
view_resume(s, g) ==
    IF g.direction = "forward"
    THEN IF g.p = len(s) \/ g.line = <<>> \/ g.line[Len(g.line)] # "\n"
         THEN view_closed(s, g, "")
         ELSE view_yield(set_point(s, g.m, point(s, g.m) + Len(g.line)),
                         g, g.m)
    ELSE IF g.p = 0 THEN view_closed(s, g, "")
         ELSE view_yield(set_point(s, g.m, g.p - 1), g, g.m)

BoundedGen(s) ==
    /\ Bounded(s.g, MaxStairL, MaxCapL, 0, 1)
    /\ Len(s.ed.mark_ring) <= MaxRingL

\* Viewer(content=content, chunksize=ChunkV), in an Editor
InitGen ==
    /\ \E content \in LineContents :
          IsG(UndoableGapBuffer_replace(
                  [NewBuffer(ChunkV, {}) EXCEPT !.marks = <<0>>],
                  WInt(0), 0, content, FALSE))
    /\ ed = [cursor |-> 1, the_mark |-> None, mark_ring |-> <<>>,
             yank_state |-> 1, undo_state |-> None, goal_column |-> None,
             writable |-> TRUE, last_command |-> "", last_key |-> ""]
    /\ killring = <<>>
    /\ peer = NoEd
    /\ registry = <<>>
    /\ buffers = <<>>
    /\ cache = <<>>
    /\ gen = [state |-> "none", n |-> 0]
    /\ conn = NoConn
    /\ hist = [op |-> "init", exc |-> "", direction |-> "", yielded |-> <<>>,
               gen0 |-> NoGen, text0 |-> <<>>, points0 |-> <<>>,
               ed0 |-> NoEd, cache0 |-> <<>>]

\* what hist keeps of a step: the operation, the exception that reached the
\* caller, the direction of the generator, the pair yielded, and the
\* generator, the text, the mark points, the session and the cache before
HistGen(op, exc, direction, yielded) ==
    [op |-> op, exc |-> exc, direction |-> direction, yielded |-> yielded,
     gen0 |-> gen, text0 |-> text(G), points0 |-> points(G), ed0 |-> ed,
     cache0 |-> cache]

\* view(origin, direction): the generator object is made
GenCall ==
    \E origin \in 0..Len(text(G)), direction \in Directions :
        /\ gen.state \in {"none", "closed"}
        /\ gen.n < MaxViews
        /\ gen' = [state |-> "created", direction |-> direction,
                   origin |-> origin, n |-> gen.n + 1]
        /\ hist' = HistGen("view", "", direction, <<>>)
        /\ UNCHANGED <<buf, gapstart, gapend, chunksize, marks, undolog, ed,
                       killring, peer, registry, buffers, cache, conn>>

\* next(generator)
GenNext ==
    /\ gen.state \in {"created", "suspended"}
    /\ Let(IF gen.state = "created" THEN view_start(SessV, gen)
           ELSE view_resume(SessV, gen), LAMBDA v :
           /\ BoundedGen(v.s)
           /\ SetG(v.s.g)
           /\ ed' = v.s.ed
           /\ cache' = v.s.cache
           /\ gen' = v.gen
           /\ hist' = HistGen("next", v.s.exc, gen.direction, v.yielded))
    /\ UNCHANGED <<killring, peer, registry, buffers, conn>>

\* the caller lets go of the generator
GenDrop ==
    /\ gen.state \in {"created", "suspended"}
    /\ Let(Collected(SessV), LAMBDA c :
           /\ SetG(c.g)
           /\ ed' = c.ed)
    /\ gen' = [state |-> "closed", direction |-> gen.direction,
               origin |-> gen.origin, n |-> gen.n]
    /\ hist' = HistGen("drop", "", gen.direction, <<>>)
    /\ UNCHANGED <<killring, peer, registry, buffers, cache, conn>>

\* move_forward and move_backward before the first redisplay
GenMove ==
    \E delta \in {1, 0 - 1} :
        /\ gen.state = "none"
        /\ Let(Collected(Viewer_move(SessV, delta)), LAMBDA c :
               /\ SetG(c.g)
               /\ ed' = [c.ed EXCEPT !.last_command = "other"])
        /\ hist' = HistGen("move", "", "", <<>>)
        /\ UNCHANGED <<killring, peer, registry, buffers, cache, gen, conn>>

NextGen == GenCall \/ GenNext \/ GenDrop \/ GenMove

SpecGen == InitGen /\ [][NextGen]_vars

\* ------------------------------------------------------------------ C33
\* text, mark points, session and cache are what they were before the step
StateKept ==
    /\ text(G) = hist.text0
    /\ points(G) = hist.points0
    /\ ed = hist.ed0
    /\ cache = hist.cache0

\* C33: a call of view with a direction other than forward or backward is
\* rejected by the call itself: the call raises, no line is produced and
\* the state of session and buffer is unchanged.
C33_CallRejects ==
    (hist.op = "view" /\ hist.direction \notin ValidDirections)
        => (hist.exc = "ValueError" /\ StateKept)

\* what holds instead: the call raises nothing and changes nothing, and the
\* first next() of the generator it made raises ValueError, yields nothing
\* and leaves the state unchanged
C33_FirstNextRejects ==
    /\ (hist.op = "view" /\ hist.direction \notin ValidDirections)
           => (hist.exc = "" /\ gen.state = "created" /\ StateKept)
    /\ (hist.op = "next" /\ hist.direction \notin ValidDirections)
           => /\ hist.gen0.state = "created"
              /\ hist.exc = "ValueError"
              /\ hist.yielded = <<>>
              /\ gen.state = "closed"
              /\ StateKept

\* view(0, 'sideways') has returned a generator
C33_GeneratorReturned ==
    /\ hist.op = "view"
    /\ hist.direction = "sideways"
    /\ hist.exc = ""
    /\ gen.state = "created"
    /\ gen.direction = "sideways"
    /\ gen.origin = 0

\* the first next() of that generator has raised ValueError
C33_RaisedAtNext ==
    /\ hist.op = "next"
    /\ hist.direction = "sideways"
    /\ hist.exc = "ValueError"
    /\ text(G) = Stair2

\* a backward view from the end of "aa", "a", "aa" has yielded its second line
C33_BackwardLine ==
    /\ hist.op = "next"
    /\ hist.direction = "backward"
    /\ text(G) = Stair2
    /\ hist.gen0.state = "suspended"
    /\ hist.yielded # <<>>
    /\ hist.yielded[1].start = 3

\* ------------------------------------------------------------------ C34
\* Buffer.__len__: len() of a negative size raises ValueError
Buffer_len(g) ==
    IF size(g) < 0 THEN [exc |-> "ValueError", value |-> 0]
    ELSE [exc |-> "", value |-> size(g)]

\* Buffer.__getitem__ of an integer k
Buffer_getitem(g, k) ==
    IF k < 0
    THEN Let(Buffer_len(g), LAMBDA n :
             IF n.exc # "" THEN [exc |-> n.exc, value |-> <<>>]
             ELSE [exc |-> "",
                   value |-> textrange(g, n.value - k, n.value - k + 1)])
    ELSE [exc |-> "", value |-> textrange(g, k, k + 1)]

\* Buffer.__getitem__ of a slice; has_start and has_stop are FALSE for a
\* bound left out (None)
Buffer_getslice(g, has_start, k_start, has_stop, k_stop) ==
    LET needs_len == \/ ~has_stop
                     \/ has_start /\ k_start < 0
                     \/ has_stop /\ k_stop < 0
        n == Buffer_len(g)
        start0 == IF has_start THEN k_start ELSE 0
        stop0 == IF has_stop THEN k_stop ELSE n.value
        start == IF start0 < 0 THEN n.value - start0 ELSE start0
        stop == IF stop0 < 0 THEN n.value - start ELSE stop0
    IN  IF needs_len /\ n.exc # "" THEN [exc |-> n.exc, value |-> <<>>]
        ELSE [exc |-> "", value |-> textrange(g, start, stop)]

\* buf[k] is text[k] inside the text and empty from len on
IndexInside ==
    \A k \in AskedPoints :
        /\ (0 <= k /\ k < size(G)) =>
               Buffer_getitem(G, k) = [exc |-> "", value |-> <<text(G)[k + 1]>>]
        /\ (0 <= size(G) /\ k >= size(G)) =>
               Buffer_getitem(G, k) = [exc |-> "", value |-> <<>>]

\* a negative k is read as index len - k
IndexNegative ==
    \A k \in AskedPoints :
        (k < 0 /\ 0 <= size(G)) =>
            Buffer_getitem(G, k) = Buffer_getitem(G, size(G) - k)

\* buf[a:b] is the text of [a, b) clipped to [0, len]
RangeClipped(as, bs) ==
    \A a \in as, b \in bs :
        Buffer_getslice(G, TRUE, a, TRUE, b)
            = [exc |-> "", value |-> Substring(a, b)]

\* a bound left out stands for 0 and for len
RangeOpen ==
    \A a \in AskedPoints :
        (0 <= a) =>
            /\ Buffer_getslice(G, TRUE, a, FALSE, 0)
                   = [exc |-> "", value |-> Substring(a, size(G))]
            /\ Buffer_getslice(G, FALSE, 0, TRUE, a)
                   = [exc |-> "", value |-> Substring(0, a)]

NonNegative == {k \in AskedPoints : k >= 0}

\* C34: for 0 <= k < len, buf[k] is text[k], and for k >= len the empty
\* string; a negative k is read as index len - k; buf[a:b] is the text of
\* the half-open interval [a, b) clipped to [0, len] for every a and b,
\* negative ones included.
C34_IndexAccess ==
    Intact(G) =>
        /\ IndexInside
        /\ IndexNegative
        /\ RangeClipped(AskedPoints, AskedPoints)

\* the same with the bounds of a range not negative: a negative start is
\* read as len - start, which lies past the text, and a negative stop as
\* len - start
C34_IndexAccessNonNegative ==
    Intact(G) =>
        /\ IndexInside
        /\ IndexNegative
        /\ RangeClipped(NonNegative, NonNegative)
        /\ RangeOpen
        /\ \A a \in AskedPoints, b \in AskedPoints :
               /\ a < 0 => Buffer_getslice(G, TRUE, a, TRUE, b).value = <<>>
               /\ (0 <= a /\ b < 0) =>
                      Buffer_getslice(G, TRUE, a, TRUE, b).value
                          = Substring(a, size(G) - a)

\* buf[0:-1] of a text of two characters is the whole text
C34_NegativeStop ==
    /\ hist.op = "replace"
    /\ Intact(G)
    /\ size(G) = 2
    /\ 0 < gapstart /\ gapstart < 2
    /\ Buffer_getslice(G, TRUE, 0, TRUE, 0 - 1).value = text(G)

\* a text of three characters with the gap inside: buf[1] is its second
\* character, buf[3] and buf[-1] are empty, buf[1:3] its last two
C34_IndexedAcrossGap ==
    /\ hist.op = "replace"
    /\ Intact(G)
    /\ size(G) = 3
    /\ gapstart = 2 /\ gapend > gapstart
    /\ Buffer_getitem(G, 1).value = <<text(G)[2]>>
    /\ Buffer_getitem(G, 3).value = <<>>
    /\ Buffer_getitem(G, 0 - 1).value = <<>>
    /\ Buffer_getslice(G, TRUE, 1, TRUE, 3).value = SubSeq(text(G), 2, 3)

\* ---------------------------------------------- yank and yank_pop (SpecYank)
\* An Editor made with a content, in a Context whose kill ring holds what was
\* killed before in any of its windows; the cursor is moved, the
\* region killed, and yank and yank_pop run.
MaxLenY == 3       \* longest text explored (SpecYank)
MaxCapY == 6       \* largest array length explored (SpecYank)
MaxUndoY == 6      \* longest undo journal explored (SpecYank)
MaxRingY == 3      \* longest mark_ring explored (SpecYank)
MaxKillY == 2      \* longest kill ring explored (SpecYank)
MaxYankY == 3      \* largest yank_state explored (SpecYank)
ChunkY == 2        \* the chunksize the Editor is made with (SpecYank)

YankContents == {<<"a", "b">>}

\* the kill rings the Context starts with
YankRings == {<<>>, <<<<"c">>>>, <<<<"c">>, <<"d">>>>}

BoundedYank(s) ==
    /\ Bounded(s.g, MaxLenY, MaxCapY, 0, MaxUndoY)
    /\ Len(s.ed.mark_ring) <= MaxRingY
    /\ Len(s.kr) <= MaxKillY
    /\ s.ed.yank_state <= MaxYankY

\* Editor(content=content, chunksize=ChunkY)
InitYank ==
    /\ \E content \in YankContents :
          IsG(UndoableGapBuffer_replace(
                  [NewBuffer(ChunkY, {}) EXCEPT !.marks = <<0>>],
                  WInt(0), 0, content, FALSE))
    /\ ed = [cursor |-> 1, the_mark |-> None, mark_ring |-> <<>>,
             yank_state |-> 1, undo_state |-> None, goal_column |-> None,
             writable |-> TRUE, last_command |-> "", last_key |-> ""]
    /\ killring \in YankRings
    /\ peer = NoEd
    /\ registry = <<>>
    /\ buffers = <<>>
    /\ cache = <<>>
    /\ gen = NoGen
    /\ conn = NoConn
    /\ hist = [op |-> "init", exc |-> "", notes |-> <<>>,
               last_command |-> "", text0 |-> <<>>, points0 |-> <<>>,
               ed0 |-> ed, killring0 |-> <<>>, span |-> <<0, 0>>,
               span0 |-> <<0, 0>>, pops |-> 0 - 1, yanked |-> <<>>]

\* the span of the text that the command has inserted from the kill ring:
\* yank inserts at the cursor, yank_pop where the span it replaces began, and
\* any other command inserts nothing
Inserted(name, s) ==
    IF Raised(s) THEN <<CursorPoint, CursorPoint>>
    ELSE IF name = "yank"
    THEN <<CursorPoint,
           CursorPoint + Len(Context_yank(Sess, ed.yank_state))>>
    ELSE IF name = "yank_pop" /\ ed.last_command \in {"yank", "yank_pop"}
    THEN <<hist.span[1],
           hist.span[1] + Len(Context_yank(Sess, ed.yank_state + 1))>>
    ELSE <<point(s, s.ed.cursor), point(s, s.ed.cursor)>>

\* Window.input_char, as in Commit; the step also notes the state the
\* command started in, the span the command has inserted, the number of
\* yank_pops since the last yank and the text that yank left
CommitYank(name, s) ==
    Let(Collected(s), LAMBDA c :
        /\ BoundedYank(c)
        /\ SetG(c.g)
        /\ killring' = c.kr
        /\ UNCHANGED others
        /\ \E recorded \in (IF Raised(s) THEN BOOLEAN ELSE {TRUE}) :
              ed' = IF recorded
                    THEN [c.ed EXCEPT !.last_command = Recorded(name)]
                    ELSE c.ed
        /\ hist' = [op |-> Recorded(name), exc |-> s.exc, notes |-> s.notes,
                    last_command |-> ed.last_command,
                    text0 |-> text(G), points0 |-> points(G), ed0 |-> ed,
                    killring0 |-> killring,
                    span |-> Inserted(name, s), span0 |-> hist.span,
                    pops |-> IF name = "yank" THEN 0
                             ELSE IF name = "yank_pop" /\ hist.pops >= 0
                             THEN hist.pops + 1
                             ELSE 0 - 1,
                    yanked |-> IF name = "yank" THEN text(c.g)
                               ELSE hist.yanked])

YankMoveForward == CommitYank("move_forward", Viewer_move(Sess, 1))
YankMoveBackward == CommitYank("move_backward", Viewer_move(Sess, 0 - 1))
YankKillRegion == CommitYank("kill_region", kill_region(Sess, None, FALSE))
YankYank == CommitYank("yank", yank(Sess))
YankYankPop == CommitYank("yank_pop", yank_pop(Sess))

NextYank ==
    \/ YankMoveForward \/ YankMoveBackward \/ YankKillRegion
    \/ YankYank \/ YankYankPop

SpecYank == InitYank /\ [][NextYank]_vars

\* ------------------------------------------------ claims: yank and yank_pop
\* the index in the kill ring of the entry that the command before has
\* inserted, and of the next older one, the oldest being followed by the
\* newest
Shown ==
    Len(hist.killring0) - ((hist.ed0.yank_state - 1) % Len(hist.killring0))

NextOlder ==
    IF hist.killring0 = <<>> THEN <<>>
    ELSE hist.killring0[IF Shown = 1 THEN Len(hist.killring0) ELSE Shown - 1]

\* the text the command started with, its characters from lo to hi replaced
\* by e
SpanReplaced(lo, hi, e) ==
    SubSeq(hist.text0, 1, lo) \o e
        \o SubSeq(hist.text0, hi + 1, Len(hist.text0))

AfterYank == hist.last_command \in {"yank", "yank_pop"}

\* yank_pop after a yank or a yank_pop replaces what that command inserted
PopReplacesSpan ==
    (hist.op = "yank_pop" /\ AfterYank) =>
        /\ hist.exc = ""
        /\ hist.notes = <<>>
        /\ text(G) = SpanReplaced(hist.span0[1], hist.span0[2], NextOlder)
        /\ killring = hist.killring0

\* as many yank_pops after a yank as the ring has entries give the text that
\* the yank left
PopsComeRound ==
    (hist.op = "yank_pop" /\ hist.pops = Len(killring) /\ hist.exc = "") =>
        text(G) = hist.yanked

\* yank_pop after another command whines and changes nothing
PopWhines ==
    (hist.op = "yank_pop" /\ ~AfterYank) =>
        /\ hist.exc = ""
        /\ hist.notes = <<"last command was not a yank">>
        /\ text(G) = hist.text0
        /\ points(G) = hist.points0
        /\ killring = hist.killring0
        /\ ed = [hist.ed0 EXCEPT !.last_command = "yank_pop"]

\* C35: yank_pop right after a yank or a yank_pop replaces exactly the span
\* that command inserted with the next older kill-ring entry and leaves the
\* text outside the span; with a ring of L entries, L yank_pops in a row
\* after a yank give back the text the yank left; after any other command
\* yank_pop only emits a notice and changes nothing.
C35_YankPopRotates == PopReplacesSpan /\ PopsComeRound /\ PopWhines

\* the same for a yank_pop after a yank, or after a yank_pop that followed a
\* yank or a yank_pop
C35_YankPopRotatesAfterYank ==
    /\ (hist.pops >= 1) => PopReplacesSpan
    /\ PopsComeRound
    /\ PopWhines

\* yank has inserted d before the last character of the text, the first
\* yank_pop has put c in its place and the second d again
C35_CameRound ==
    /\ hist.op = "yank_pop"
    /\ hist.pops = 2
    /\ killring = <<<<"c">>, <<"d">>>>
    /\ hist.text0 = <<"a", "c", "b">>
    /\ text(G) = <<"a", "d", "b">>
    /\ hist.yanked = text(G)

\* yank has put d before ab and the cursor has moved past a; a yank_pop has
\* whined and the next one has put c in the place of da: a, which no yank
\* had inserted, is lost
C35_RegionLost ==
    /\ hist.op = "yank_pop"
    /\ hist.last_command = "yank_pop"
    /\ hist.pops < 0
    /\ hist.exc = ""
    /\ hist.span0[1] = hist.span0[2]
    /\ hist.text0 = <<"d", "a", "b">>
    /\ text(G) = <<"c", "b">>

\* a yank_pop has followed a yank_pop that only whined, no mark is set and
\* the command has raised TypeError
C35_NoMark ==
    /\ hist.op = "yank_pop"
    /\ hist.last_command = "yank_pop"
    /\ IsNone(hist.ed0.the_mark)
    /\ hist.exc = "TypeError"

\* ------------------------------------------------------------------ C36
\* the yielded lines that hold the cursor-marker segment
CursorLines ==
    {i \in 1..Len(hist.lines) :
        \E j \in 1..Len(hist.lines[i].segs) :
            hist.lines[i].segs[j].tags = "cursor"}

\* whether the i-th yielded line is the line of the text in which the cursor
\* is: the line the cursor's point falls in, the last one for a cursor at the
\* end of the buffer
HoldsCursor(i) ==
    Let(hist.lines[i].start, LAMBDA p :
    Let(Len(LineText(hist.lines[i])), LAMBDA l :
        \/ p <= hist.cursor0 /\ hist.cursor0 < p + l
        \/ hist.cursor0 = Len(hist.text0) /\ i = Len(hist.lines)))

\* the marker of the i-th line follows cursor - line_start characters
MarkerPlaced(i) ==
    /\ Len(hist.lines[i].segs) = 3
    /\ hist.lines[i].segs[2] = Segment("cursor", <<>>)
    /\ Len(hist.lines[i].segs[1].text)
           = hist.cursor0 - LineStart(hist.text0, hist.cursor0)
    /\ hist.lines[i].start = LineStart(hist.text0, hist.cursor0)

OneCursorLine ==
    /\ hist.exc = ""
    /\ ~hist.more
    /\ Cardinality(CursorLines) = 1
    /\ \A i \in CursorLines : HoldsCursor(i) /\ MarkerPlaced(i)

\* C36: in a complete forward view from origin 0, for every text and every
\* cursor point from 0 to len, exactly one yielded line holds the
\* cursor-marker segment; it is the line the cursor is in (the last line for
\* a cursor at the end of the buffer), and the marker follows exactly
\* cursor - line_start characters of that line.
C36_OneCursorLine == hist.op = "view" => OneCursorLine

\* the cursor is at the end of a text that ends in a newline
AfterLastNewline ==
    hist.cursor0 = Len(hist.text0) /\ EndsInNewline(hist.text0)

\* the same while the gap lies inside the array, but for a cursor at the end
\* of a text that ends in a newline: then the last two lines hold a marker,
\* the one that ends in that newline after all its characters
C36_OneCursorLineButAtEnd ==
    (hist.op = "view" /\ hist.ok0) =>
        IF AfterLastNewline
        THEN /\ hist.exc = ""
             /\ ~hist.more
             /\ CursorLines = {Len(hist.lines) - 1, Len(hist.lines)}
             /\ MarkerPlaced(Len(hist.lines))
             /\ Let(hist.lines[Len(hist.lines) - 1], LAMBDA line :
                    /\ line.segs[1].text = LineText(line)
                    /\ EndsInNewline(line.segs[1].text))
        ELSE OneCursorLine

\* view has run over "ab\ncd" with the cursor at 4: the second line alone
\* holds the marker, after one character
C36_CursorInSecondLine ==
    /\ hist.op = "view"
    /\ hist.ok0
    /\ hist.text0 = AbCd
    /\ hist.cursor0 = 4
    /\ CursorLines = {2}
    /\ hist.lines[2].segs[1].text = <<"c">>

\* view has run over "a\n" with the cursor at 2 and both lines hold a marker
C36_TwoCursorLines ==
    /\ hist.op = "view"
    /\ hist.ok0
    /\ hist.text0 = <<"a", "\n">>
    /\ hist.cursor0 = 2
    /\ Len(hist.lines) = 2
    /\ CursorLines = {1, 2}

\* ------------------------------------------------------------------ C37
\* the entry that undo(which) journals: the record of the replace that
\* reverts the entry at slot off
InverseEntry ==
    Let(undolog[undo_off(G, hist'.which) + 1], LAMBDA e :
        <<e[1], Len(e[3]), textrange(G, e[1], e[1] + e[2])>>)

\* a step keeps every entry of the journal but the last, which a replace may
\* widen, and the last as well when it adds one
NoEntryRemoved ==
    /\ Len(undolog') >= Len(undolog)
    /\ \A i \in 1..(Len(undolog) - 1) : undolog'[i] = undolog[i]
    /\ Len(undolog') > Len(undolog) =>
           SubSeq(undolog', 1, Len(undolog)) = undolog

UndoJournaled ==
    (hist'.op = "undo" /\ ~IsNone(hist'.ret)) =>
        /\ undolog' = Append(undolog, InverseEntry)
        /\ Val(hist'.ret)[1] \in 0..(Len(undolog') - 1)

\* C37: every successful undo appends exactly one entry, the record of its
\* inverse replace, to the journal; no operation removes an entry, so the
\* length of the journal never decreases; and the token undo returns is
\* an index of the journal.
C37_UndoJournaled == [][NoEntryRemoved /\ UndoJournaled]_vars

\* undo of the oldest of two entries has added a third and returned the
\* token of the newest, 2
C37_TokenWrapped ==
    /\ hist.op = "undo"
    /\ hist.which = Some(0)
    /\ Len(hist.log0) = 2
    /\ Len(undolog) = 3
    /\ SubSeq(undolog, 1, 2) = hist.log0
    /\ hist.ret # None
    /\ Val(hist.ret)[1] = 2

\* ------------------------------------ two sessions and undo (SpecPair)
\* An Editor and a second one made with the first as its prototype, on the
\* same Buffer; each types, deletes, moves and undoes in any order.
MaxLenP == 2       \* longest text explored (SpecPair)
MaxCapP == 4       \* largest array length explored (SpecPair)
MaxUndoP == 5      \* longest undo journal explored (SpecPair)
ChunkP == 2        \* the chunksize the first Editor is made with (SpecPair)

BoundedPair(s) == Bounded(s.g, MaxLenP, MaxCapP, 0, MaxUndoP)

\* Editor(chunksize=ChunkP)
FirstSession ==
    [g |-> [NewBuffer(ChunkP, {}) EXCEPT !.marks = <<0>>],
     ed |-> [cursor |-> 1, the_mark |-> None, mark_ring |-> <<>>,
             yank_state |-> 1, undo_state |-> None, goal_column |-> None,
             writable |-> TRUE, last_command |-> "", last_key |-> ""],
     kr |-> <<>>, notes |-> <<>>, exc |-> ""]

\* Editor(chunksize=ChunkP) and Editor(prototype=the first)
InitPair ==
    /\ IsG(Editor_prototype(FirstSession).g)
    /\ ed = FirstSession.ed
    /\ peer = Editor_prototype(FirstSession).ed
    /\ killring = <<>>
    /\ registry = <<>>
    /\ buffers = <<>>
    /\ cache = <<>>
    /\ gen = NoGen
    /\ conn = NoConn
    /\ hist = [op |-> "init", who |-> "ed", exc |-> "", notes |-> <<>>,
               text0 |-> <<>>, held |-> {}, token |-> None,
               resumed |-> FALSE, stale |-> FALSE,
               between |-> [w \in {"ed", "peer"} |-> FALSE]]

\* Window.input_char in the window of session who; the step also notes the
\* text it started with, the texts the buffer has held before it, the token
\* the session had, and for each session whether the other has changed the
\* journal since its last command
CommitPair(who, name, key, s) ==
    /\ BoundedPair(s)
    /\ SetG(s.g)
    /\ killring' = s.kr
    /\ UNCHANGED <<registry, buffers, cache, gen, conn>>
    /\ \E recorded \in (IF Raised(s) THEN BOOLEAN ELSE {TRUE}) :
          Let(IF recorded
              THEN [s.ed EXCEPT !.last_command = Recorded(name),
                                !.last_key = key]
              ELSE s.ed, LAMBDA e :
              /\ ed' = IF who = "ed" THEN e ELSE ed
              /\ peer' = IF who = "ed" THEN peer ELSE e)
    /\ hist' = [op |-> name, who |-> who, exc |-> s.exc, notes |-> s.notes,
                text0 |-> text(G),
                held |-> hist.held \cup {text(G)},
                token |-> SessOf(who).ed.undo_state,
                resumed |-> SessOf(who).ed.last_command = "undo",
                stale |-> hist.between[who],
                between |-> [w \in {"ed", "peer"} |->
                                IF w = who THEN FALSE
                                ELSE hist.between[w]
                                         \/ s.g.undolog # undolog]]

PairSelfInsert ==
    \E who \in {"ed", "peer"}, key \in Keys :
        CommitPair(who, "self_insert", key, self_insert(SessOf(who), key))
PairDeleteBackward ==
    \E who \in {"ed", "peer"} :
        CommitPair(who, "delete_backward", "", delete_backward(SessOf(who)))
PairMoveBackward ==
    \E who \in {"ed", "peer"} :
        CommitPair(who, "move_backward", "", Viewer_move(SessOf(who), 0 - 1))
PairUndo ==
    \E who \in {"ed", "peer"} :
        CommitPair(who, "undo", "", Editor_undo(SessOf(who)))

NextPair ==
    PairSelfInsert \/ PairDeleteBackward \/ PairMoveBackward \/ PairUndo

SpecPair == InitPair /\ [][NextPair]_vars

\* ------------------------------------------- claims: undo of two sessions
\* C38: with two Editor sessions on one buffer, in every interleaving of
\* their edits and undos each undo turns the text into a text the buffer
\* held at some earlier moment; so does the second of two consecutive undos
\* of one session between which the other has edited.
C38_UndoRestoresEarlier ==
    (hist.op = "undo" /\ hist.exc = "") => text(G) \in hist.held

\* the same for the undos of a session since whose last command the other
\* has not changed the journal, and for the undos that do not resume
C38_UndoRestoresEarlierAlone ==
    (hist.op = "undo" /\ hist.exc = "" /\ ~(hist.resumed /\ hist.stale))
        => text(G) \in hist.held

\* the second of two consecutive undos of a session, the other having typed
\* between them, has left a text the buffer never held
C38_NeverHeld ==
    /\ hist.op = "undo"
    /\ hist.exc = ""
    /\ hist.resumed
    /\ hist.stale
    /\ hist.token # None
    /\ hist.held = {<<>>, <<"a">>}
    /\ text(G) = <<"a", "a">>

\* an undo has followed an edit of the other session and has reverted it
C38_RevertedOthers ==
    /\ hist.op = "undo"
    /\ hist.exc = ""
    /\ ~hist.resumed
    /\ hist.stale
    /\ text(G) \in hist.held
    /\ text(G) # hist.text0

\* ------------------------------------- Rooster.newmessages (SpecTail)
\* One Rooster; newmessages is run, reads frames from its websocket until it
\* exits, and is run again.  conn.log is what the run has done, in order: the
\* frames it sent, the text frames it read and the messages it handed to the
\* callback.
MaxFrames == 4     \* frames read in one run of newmessages
MaxPings == 1      \* pings of the ping task followed in one run
MaxTails == 2      \* runs of newmessages followed (self.tailid)
MaxBatch == 2      \* most messages in one 'messages' frame

Sent(type, id, count) == [k |-> "send", type |-> type, id |-> id, n |-> count]
Read(type, msgs) == [k |-> "read", type |-> type, msgs |-> msgs]
Called(msg) == [k |-> "call", msg |-> msg]

\* the 'messages' lists of the frames: the ids 1.. of a batch
Batches == {[i \in 1..n |-> i] : n \in 0..MaxBatch}

\* what reader.read() gives: a ping, a close or another control frame, the
\* end of the stream, or a text frame, which is JSON of some type, with
\* 'messages' or without, or JSON without 'type'
Frames ==
    {[tp |-> "ping"], [tp |-> "close"], [tp |-> "binary"], [tp |-> "eof"]}
    \cup {[tp |-> "text", type |-> t, msgs |-> None] :
              t \in {"ready", "pong", "error", "messages", ""}}
    \cup {[tp |-> "text", type |-> "messages", msgs |-> Some(b)] :
              b \in Batches}

\* a finally clause that leaves the ping task as it is
finally_uncancelled(c, why) ==
    [c EXCEPT !.state = "closed", !.exit = why, !.pending = <<>>]

\* the finally clause: the ping task is cancelled when there is one, and the
\* response closed
finally(c, why) ==
    [c EXCEPT !.state = "closed",
              !.exit = why,
              !.pending = <<>>,
              !.pingtask = IF @ = "none" THEN "none" ELSE "cancelled"]

InitTail ==
    /\ IsG(NewBuffer(1, {}))
    /\ ed = NoEd
    /\ killring = <<>>
    /\ peer = NoEd
    /\ registry = <<>>
    /\ buffers = <<>>
    /\ cache = <<>>
    /\ gen = NoGen
    /\ conn = [state |-> "none", exit |-> "", st |-> "start", msgcount |-> 0,
               tailid |-> 0, next_tailid |-> 0, pingtask |-> "none",
               pending |-> <<>>, log |-> <<>>, frames |-> 0, pings |-> 0]
    /\ hist = [op |-> "init"]

TailStep(op, c) ==
    /\ conn' = c
    /\ hist' = [op |-> op]
    /\ UNCHANGED <<buf, gapstart, gapend, chunksize, marks, undolog, ed,
                   killring, peer, registry, buffers, cache, gen>>

\* newmessages up to its first reader.read(): the websocket is opened and
\* 'auth' sent
TailConnect ==
    /\ conn.state \in {"none", "closed"}
    /\ conn.next_tailid < MaxTails
    /\ TailStep("connect",
                [state |-> "reading", exit |-> "", st |-> "start",
                 msgcount |-> 1, tailid |-> conn.next_tailid,
                 next_tailid |-> conn.next_tailid + 1, pingtask |-> "none",
                 pending |-> <<>>,
                 log |-> <<Sent("auth", 0 - 1, 0)>>,
                 frames |-> 0, pings |-> 0])

\* one turn of the loop for a text frame m
text_frame(c, m) ==
    Let([c EXCEPT !.log = Append(@, Read(m.type, m.msgs))], LAMBDA c1 :
        IF m.type = "" THEN finally(c1, "AssertionError")
        ELSE IF c.st = "start"
        THEN IF m.type # "ready" THEN finally(c1, "AssertionError")
             ELSE [c1 EXCEPT !.log = @ \o <<Sent("new-tail", c.tailid, 0),
                                            Sent("extend-tail", c.tailid,
                                                 c.msgcount)>>,
                             !.st = "go",
                             !.pingtask = "running"]
        ELSE IF m.type = "messages"
        THEN Let([c1 EXCEPT !.msgcount = @ + 1,
                            !.log = Append(@, Sent("extend-tail", c.tailid,
                                                   c.msgcount + 1))],
                 LAMBDA c2 :
                 IF IsNone(m.msgs) THEN finally(c2, "KeyError")
                 ELSE IF Val(m.msgs) = <<>> THEN c2
                 ELSE [c2 EXCEPT !.state = "delivering",
                                 !.pending = Val(m.msgs)])
        ELSE c1)

\* one turn of the loop: reader.read() returns a frame or raises EofStream
TailRead ==
    /\ conn.state = "reading"
    /\ conn.frames < MaxFrames
    /\ \E m \in Frames :
          Let([conn EXCEPT !.frames = @ + 1], LAMBDA c :
              TailStep("read",
                  IF m.tp = "ping"
                  THEN [c EXCEPT !.log = Append(@, Sent("pong", 0 - 1, 0))]
                  ELSE IF m.tp = "close" THEN finally(c, "close")
                  ELSE IF m.tp = "eof" THEN finally(c, "EofStream")
                  ELSE IF m.tp = "text" THEN text_frame(c, m)
                  ELSE c))

\* yield from coro(msg) for the next message of the frame: the callback
\* returns or raises
TailDeliver ==
    /\ conn.state = "delivering"
    /\ \E raises \in BOOLEAN :
          Let([conn EXCEPT !.log = Append(@, Called(Head(conn.pending))),
                           !.pending = Tail(@)], LAMBDA c :
              TailStep("deliver",
                  IF raises THEN finally(c, "callback")
                  ELSE IF c.pending = <<>>
                  THEN [c EXCEPT !.state = "reading"]
                  ELSE c))

\* _pinger: the ping task wakes while newmessages waits
TailPing ==
    /\ conn.state \in {"reading", "delivering"}
    /\ conn.pingtask = "running"
    /\ conn.pings < MaxPings
    /\ TailStep("ping",
                [conn EXCEPT !.pings = @ + 1,
                             !.log = Append(@, Sent("ping", 0 - 1, 0))])

\* the task that runs newmessages is cancelled while it waits
TailCancel ==
    /\ conn.state \in {"reading", "delivering"}
    /\ TailStep("cancel", finally(conn, "CancelledError"))

NextTail ==
    TailConnect \/ TailRead \/ TailDeliver \/ TailPing \/ TailCancel

SpecTail == InitTail /\ [][NextTail]_vars

\* -------------------------------------------------- claims: the tail
Log == conn.log

Sends(type) == {i \in DOMAIN Log : Log[i].k = "send" /\ Log[i].type = type}

TextReads == {i \in DOMAIN Log : Log[i].k = "read"}

\* the 'messages' frames read after 'ready'
MessageReads ==
    {i \in TextReads : Log[i].type = "messages" /\ \E j \in TextReads : j < i}

\* the entry after i that is a text frame read, or the end of the log
NextRead(i) ==
    IF \E j \in TextReads : j > i
    THEN CHOOSE j \in TextReads : j > i /\ \A r \in TextReads : r > i => j <= r
    ELSE Len(Log) + 1

IsCall(e) == e.k = "call"

\* the messages handed to the callback between entry i and the next frame
CallsAfter(i) ==
    Let(SelectSeq(SubSeq(Log, i + 1, NextRead(i) - 1), IsCall), LAMBDA cs :
        [j \in 1..Len(cs) |-> cs[j].msg])

\* the count of the last 'extend-tail' sent before entry i
CountBefore(i) ==
    Log[CHOOSE j \in Sends("extend-tail") :
            j < i /\ \A r \in Sends("extend-tail") : r < i => r <= j].n

\* 'auth' is the first frame sent, and is sent once
AuthFirst ==
    conn.state # "none" =>
        /\ Log # <<>>
        /\ Log[1] = Sent("auth", 0 - 1, 0)
        /\ Sends("auth") = {1}

\* 'new-tail' is sent once, right after the first text frame has been read
\* and was 'ready', and 'extend-tail' with count 1 right after it
NewTailOnce ==
    /\ Cardinality(Sends("new-tail")) <= 1
    /\ \A i \in Sends("new-tail") :
          /\ i - 1 \in TextReads
          /\ \A r \in TextReads : i - 1 <= r
          /\ Log[i - 1].type = "ready"
          /\ Log[i] = Sent("new-tail", conn.tailid, 0)
          /\ i + 1 \in DOMAIN Log
          /\ Log[i + 1] = Sent("extend-tail", conn.tailid, 1)
    /\ \A r \in TextReads :
          (Log[r].type = "ready" /\ \A q \in TextReads : r <= q)
              => r + 1 \in Sends("new-tail")

\* every 'messages' frame read after 'ready' is followed at once by one
\* 'extend-tail' of the count before plus 1, and then by its messages handed
\* to the callback in order; no other 'extend-tail' is sent and no other
\* message handed over
ExtendPerFrame ==
    /\ \A i \in MessageReads :
          /\ i + 1 \in Sends("extend-tail")
          /\ Log[i + 1].id = conn.tailid
          /\ Log[i + 1].n = CountBefore(i) + 1
          /\ Let(IF IsNone(Log[i].msgs) THEN <<>> ELSE Val(Log[i].msgs),
                 LAMBDA ms :
                 /\ Len(CallsAfter(i + 1)) <= Len(ms)
                 /\ CallsAfter(i + 1) = SubSeq(ms, 1, Len(CallsAfter(i + 1)))
                 /\ (NextRead(i) <= Len(Log) \/ conn.state = "reading")
                        => CallsAfter(i + 1) = ms)
    /\ \A e \in Sends("extend-tail") :
          e - 1 \in Sends("new-tail") \cup MessageReads
    /\ \A c \in DOMAIN Log :
          IsCall(Log[c]) =>
              \E i \in MessageReads : i + 1 < c /\ c < NextRead(i)
    /\ conn.state # "none" =>
           conn.msgcount = 1 + Cardinality(MessageReads)

\* there is a ping task only after 'ready'; it runs while the loop runs and
\* is cancelled when the loop has been left, however it was left
PingTaskKept ==
    /\ conn.pingtask # "none" <=> Sends("new-tail") # {}
    /\ conn.pingtask = "running" =>
           conn.state \in {"reading", "delivering"}
    /\ conn.state = "closed" =>
           /\ conn.pingtask \in {"none", "cancelled"}
           /\ conn.exit # ""
    /\ \A p \in Sends("ping") : \E i \in Sends("new-tail") : i < p

\* C39: in one run of newmessages 'auth' is sent first; 'new-tail' is sent
\* once, only after the first text frame, 'ready', has been read, and is
\* followed at once by 'extend-tail' with count 1; each later 'messages'
\* frame causes one 'extend-tail' whose count is the count before plus 1,
\* sent before the messages of the frame are handed to the callback in order;
\* the ping task exists only after 'ready' and is cancelled on every exit of
\* the loop.
C39_TailOrdered ==
    AuthFirst /\ NewTailOnce /\ ExtendPerFrame /\ PingTaskKept

\* a run has read 'ready', a frame of two messages and a frame of one, the
\* ping task has sent a ping between the two messages, and the run was left
\* by a close frame
C39_TailFollowed ==
    /\ conn.state = "closed"
    /\ conn.exit = "close"
    /\ conn.pingtask = "cancelled"
    /\ conn.tailid = 1
    /\ Log = <<Sent("auth", 0 - 1, 0),
               Read("ready", None),
               Sent("new-tail", 1, 0),
               Sent("extend-tail", 1, 1),
               Read("messages", Some(<<1, 2>>)),
               Sent("extend-tail", 1, 2),
               Called(1),
               Sent("ping", 0 - 1, 0),
               Called(2),
               Read("messages", Some(<<1>>)),
               Sent("extend-tail", 1, 3),
               Called(1)>>

\* the callback has raised at the first message of a frame and the ping task
\* is cancelled
C39_CallbackRaised ==
    /\ conn.state = "closed"
    /\ conn.exit = "callback"
    /\ conn.pingtask = "cancelled"
    /\ Len(Log) >= 2
    /\ Log[Len(Log)] = Called(1)
    /\ Log[Len(Log) - 1].type = "extend-tail"

====
